---- MODULE Spec2Model ----
(***************************************************************************)
(* Conversion ingestion pipeline of shopify-yahoo-cv-sync: the web pixel's *)
(* proof-of-work (makePow), the gateway's verification (checkPow) and the  *)
(* gateway action of /api/setConversion with its stores and caches.        *)
(*                                                                         *)
(* Text is a sequence of character codes (ASCII); base64 text is a         *)
(* sequence of alphabet indices 0..63, with 64 standing for the pad '='.   *)
(* Time is in milliseconds, as Date.now() gives it.                        *)
(***************************************************************************)
EXTENDS Integers, Sequences, FiniteSets, Bags, TLC

(***************************************************************************)
(* Bounds of the model.                                                    *)
(***************************************************************************)
\* number of clock ticks (of one minute) a behaviour may take
MaxTicks == 1
\* the minute at which the clock starts (minutes 9, 10: one and two digits)
StartMin == 9
\* gateway requests handled concurrently, and in total
NumProcs == 2
MaxRequests == 2
\* iterations of the client's brute-force loop that the model follows
MaxCounter == 12
\* bytes of the stand-in digest
DigestLen == 3
\* invocations of generatePublicKey
MaxRotations == 4
\* runs of createCsvAndImportToYahoo
MaxRuns == 2
\* starts of the daily maintenance task
MaxDays == 1
\* pairs in the cookie store
MaxCookies == 3
\* the minutes that pass while the session cache is observed
MaxMinutes == 6

(***************************************************************************)
(* Program constants.                                                      *)
(***************************************************************************)
MsPerMin == 60000
POW_BITS == 10
POW_VALID_MS == 2 * MsPerMin
DIFFICULTY == 10
ALLOW_SESSION_TTL_MS == 5 * MsPerMin
ALLOW_ORIGIN_TTL_MS == 5 * MsPerMin
ORDER_FRESH_MS == 2 * MsPerMin

(***************************************************************************)
(* Text helpers: template literals, split, parseInt.                       *)
(***************************************************************************)
Colon == 58
Space == 32
Minus == 45
Plus == 43
IsDigit(c) == c >= 48 /\ c <= 57

RECURSIVE Digits(_)
\* `${n}` of a non-negative integer: its decimal digits
Digits(n) == IF n < 10 THEN <<48 + n>> ELSE Digits(n \div 10) \o <<48 + (n % 10)>>

RECURSIVE SplitHead(_)
\* data.split(":")[0]: the text before the first colon
SplitHead(s) ==
    IF s = <<>> THEN <<>>
    ELSE IF Head(s) = Colon THEN <<>>
    ELSE <<Head(s)>> \o SplitHead(Tail(s))

\* a number is a record: nan says whether it is NaN, val is its value otherwise
NaN == [nan |-> TRUE, val |-> 0]
Num(n) == [nan |-> FALSE, val |-> n]

RECURSIVE DigitRun(_, _)
\* value of the longest prefix of decimal digits, acc being the value so far
DigitRun(s, acc) ==
    IF s = <<>> \/ ~IsDigit(Head(s)) THEN acc
    ELSE DigitRun(Tail(s), acc * 10 + (Head(s) - 48))

RECURSIVE SkipSpace(_)
SkipSpace(s) == IF s # <<>> /\ Head(s) = Space THEN SkipSpace(Tail(s)) ELSE s

\* parseInt(s, 10): leading blanks, an optional sign, then digits; NaN without a digit
parseInt(s) ==
    LET t == SkipSpace(s)
        neg == t # <<>> /\ Head(t) = Minus
        u == IF t # <<>> /\ Head(t) \in {Minus, Plus} THEN Tail(t) ELSE t
    IN  IF u = <<>> \/ ~IsDigit(Head(u)) THEN NaN
        ELSE IF neg THEN Num(0 - DigitRun(u, 0)) ELSE Num(DigitRun(u, 0))

Abs(x) == IF x < 0 THEN 0 - x ELSE x

(***************************************************************************)
(* base64: btoa on the client, Buffer.from(b64, "base64") on the server.   *)
(***************************************************************************)
Pad == 64

RECURSIVE btoa(_)
btoa(b) ==
    IF Len(b) = 0 THEN <<>>
    ELSE IF Len(b) = 1 THEN
        <<b[1] \div 4, (b[1] % 4) * 16, Pad, Pad>>
    ELSE IF Len(b) = 2 THEN
        <<b[1] \div 4, (b[1] % 4) * 16 + (b[2] \div 16), (b[2] % 16) * 4, Pad>>
    ELSE
        <<b[1] \div 4, (b[1] % 4) * 16 + (b[2] \div 16),
          (b[2] % 16) * 4 + (b[3] \div 64), b[3] % 64>>
        \o btoa(SubSeq(b, 4, Len(b)))

RECURSIVE BufferFromBase64(_)
\* decoding stops at the pad or at a group that is cut short
BufferFromBase64(t) ==
    IF Len(t) < 2 \/ t[1] = Pad \/ t[2] = Pad THEN <<>>
    ELSE LET b1 == t[1] * 4 + (t[2] \div 16)
         IN  IF Len(t) < 3 \/ t[3] = Pad THEN <<b1>>
             ELSE LET b2 == (t[2] % 16) * 16 + (t[3] \div 4)
                  IN  IF Len(t) < 4 \/ t[4] = Pad THEN <<b1, b2>>
                      ELSE <<b1, b2, (t[3] % 4) * 64 + t[4]>>
                           \o BufferFromBase64(SubSeq(t, 5, Len(t)))

(***************************************************************************)
(* The digest.  SHA-256 is a fixed function from byte strings to digests;  *)
(* the model keeps that and nothing else: sha256 is a fixed function from  *)
(* byte strings to DigestLen bytes, spread so that digests with no, some   *)
(* and many leading zero bits all occur among a few inputs.                *)
(***************************************************************************)
RECURSIVE Mix(_, _)
Mix(b, acc) == IF b = <<>> THEN acc ELSE Mix(Tail(b), (acc * 31 + Head(b)) % 32749)

Spread == <<0, 0, 0, 0, 0, 0, 1, 2, 5, 17, 40, 77, 130, 200, 255, 64>>

sha256(b) ==
    LET m == Mix(b, 7)
        q == (m * m) % 32749
    IN  [i \in 1..DigestLen |-> Spread[((q \div (16 ^ (i - 1))) % 16) + 1]]

RECURSIVE BitLength(_)
\* position of the highest set bit of x, 0 for x = 0
BitLength(x) == IF x = 0 THEN 0 ELSE 1 + BitLength(x \div 2)

\* Math.clz32 of a non-negative 32-bit value
Clz32(x) == 32 - BitLength(x)

(***************************************************************************)
(* The difficulty count, as the server's loop and as the client's loop.    *)
(***************************************************************************)
\* ServerZeros with the break taken after the first byte whatever its count
ServerZeros_FirstByteOnly(hash, zeros) ==
    IF hash = <<>> THEN zeros ELSE zeros + (Clz32(Head(hash)) - 24)

RECURSIVE ServerZeros(_, _)
\* checkPow's loop over the digest, zeros being the count so far
ServerZeros(hash, zeros) ==
    IF hash = <<>> THEN zeros
    ELSE LET z == Clz32(Head(hash)) - 24
         IN  IF z # 8 THEN zeros + z ELSE ServerZeros(Tail(hash), zeros + z)

RECURSIVE ClientZeros_NoBreak(_, _)
\* ClientZeros without the break: the leading zero bits of every byte are added up
ClientZeros_NoBreak(hash, zeros) ==
    IF hash = <<>> THEN zeros
    ELSE ClientZeros_NoBreak(Tail(hash), zeros + (Clz32(Head(hash)) - 24))

RECURSIVE ClientZeros(_, _)
\* makePow's loop over the digest, zeros being the count so far
ClientZeros(hash, zeros) ==
    IF hash = <<>> THEN zeros
    ELSE LET z == Clz32(Head(hash)) - 24
         IN  IF z # 8 THEN zeros + z ELSE ClientZeros(Tail(hash), zeros + z)

\* request.headers.get("x-pow") of a request without the header, or with an empty one
NoHeader == <<>>

\* PowOutOfWindow that tests only for a token from the future
PowOutOfWindow_FutureOnly(minTime, t) == (minTime - t) > POW_VALID_MS

\* checkPow's window test at server time t: Math.abs(Date.now() - minTime) > POW_VALID_MS
PowOutOfWindow(minTime, t) == Abs(t - minTime) > POW_VALID_MS

\* checkPow(b64) evaluated at server time t
checkPow(b64, t) ==
    IF b64 = NoHeader THEN FALSE
    ELSE LET data == BufferFromBase64(b64)
             unixMin == parseInt(SplitHead(data))
         IN  IF unixMin.nan \/ PowOutOfWindow(unixMin.val * MsPerMin, t) THEN FALSE
             ELSE ServerZeros(sha256(data), 0) >= POW_BITS

\* makePow's seed: `${unixMin}:${rand16}:` at client time t
SeedStr(t, rand16) == Digits(t \div MsPerMin) \o <<Colon>> \o rand16 \o <<Colon>>

\* one pass of makePow's loop: does seedStr + counter meet the difficulty
ClientMeets(seedStr, counter) ==
    ClientZeros(sha256(seedStr \o Digits(counter)), 0) >= DIFFICULTY

(***************************************************************************)
(* Requests.  A JSON value is a record of its typeof and its value; a      *)
(* compact JWE is its protected header (alg, kid), the key it was really   *)
(* encrypted under (encKid) and its plaintext.                             *)
(***************************************************************************)
Str(x) == [t |-> "string", v |-> x]
Number(x) == [t |-> "number", v |-> x]
Undefined == [t |-> "undefined", v |-> 0]

Kids == {1, 2}
Nonces == {1, 2}
OrderIds == {1, 2}
\* click identifiers as the pixel builds them: text that starts with "YSS" or "YJAD"
SearchYclid == <<"Y", "S", "S", ".", "1">>
DisplayYclid == <<"Y", "J", "A", "D", ".", "2">>
Yclids == {SearchYclid, DisplayYclid}
\* the amount of the purchase, and the two instants of the payload
Amount == 1000
StartTime == StartMin * MsPerMin
VisitedAt == StartTime - MsPerMin
ConversionedAt == StartTime

WellTyped ==
    [yclid : {Str(y) : y \in Yclids}, visitedAt : {Str(VisitedAt)},
     conversionedAt : {Str(ConversionedAt)}, amount : {Number(Amount)},
     orderId : {Str(o) : o \in OrderIds}, nonce : {Str(n) : n \in Nonces}]

\* the payload that the faulty requests are variations of
BasePayload ==
    [yclid |-> Str(SearchYclid), visitedAt |-> Str(VisitedAt), conversionedAt |-> Str(ConversionedAt),
     amount |-> Number(Amount), orderId |-> Str(1), nonce |-> Str(1)]

\* a payload that fails the typeof test: the amount sent as text
IllTyped == [BasePayload EXCEPT !.amount = Str(Amount)]

\* plaintext that JSON.parse rejects
NotJson == [BasePayload EXCEPT !.yclid = Undefined, !.nonce = Undefined]

Algs == {"RSA-OAEP-256", "RSA-OAEP"}

\* kind: "empty" (no body), "garbage" (no decodable protected header), "jwe"
Jwe(alg, kid, encKid, plaintext) ==
    [kind |-> "jwe", alg |-> alg, kid |-> kid, encKid |-> encKid, plaintext |-> plaintext]
EmptyBody == [kind |-> "empty", alg |-> "RSA-OAEP-256", kid |-> 1, encKid |-> 1, plaintext |-> NotJson]
GarbageBody == [kind |-> "garbage", alg |-> "RSA-OAEP-256", kid |-> 1, encKid |-> 1, plaintext |-> NotJson]
BaseBody == Jwe("RSA-OAEP-256", 1, 1, BasePayload)

\* every well-typed payload under the stored key, and the base payload under every
\* combination of algorithm, key identifier, encryption key and plaintext defect
Bodies ==
    {EmptyBody, GarbageBody}
    \cup {Jwe("RSA-OAEP-256", 1, 1, pl) : pl \in WellTyped}
    \cup {Jwe(a, k, e, pl) : a \in Algs, k \in Kids, e \in Kids, pl \in {BasePayload, IllTyped, NotJson}}

\* the salt of the tokens that requests carry
Rand16 == <<55>>

RECURSIVE FirstCounter(_, _, _)
\* the least counter from c on for which seedStr + counter meets, or misses, the difficulty
FirstCounter(seedStr, c, meets) ==
    IF ClientMeets(seedStr, c) = meets THEN c ELSE FirstCounter(seedStr, c + 1, meets)

Token(m, meets) ==
    LET seedStr == SeedStr(m * MsPerMin, Rand16)
    IN  btoa(seedStr \o Digits(FirstCounter(seedStr, 0, meets)))

\* the minutes of the tokens: two minutes before the clock starts, its first minute,
\* and three minutes after that
TokenMinutes == {StartMin - 2, StartMin, StartMin + 3}

\* X-Pow headers: none, text without a minute, and for each of the minutes a token
\* that meets the difficulty and one that does not
PowHeaders ==
    {NoHeader, btoa(<<Colon, 55, Colon, 48>>)}
    \cup {Token(m, meets) : m \in TokenMinutes, meets \in BOOLEAN}

\* the methods the framework hands to action
Methods == {"POST", "PUT"}

\* the methods the framework hands to loader
LoaderMethods == {"GET", "OPTIONS"}

\* every method and header with three bodies, and every body with a token that meets
Requests ==
    [method : Methods, pow : PowHeaders,
     body : {EmptyBody, BaseBody, Jwe("RSA-OAEP", 1, 1, BasePayload)}]
    \cup [method : {"POST"}, pow : {Token(m, TRUE) : m \in TokenMinutes}, body : Bodies]

(***************************************************************************)
(* Responses.                                                              *)
(***************************************************************************)
NoCode == 0 - 1
errorResponse(code) == [status |-> 405, result |-> "error", error_code |-> code]
Success == [status |-> 200, result |-> "success", error_code |-> NoCode]
InternalServerError == [status |-> 500, result |-> "Internal Server Error", error_code |-> NoCode]
NoResponse == [status |-> 0, result |-> "none", error_code |-> NoCode]
Preflight == [status |-> 204, result |-> "none", error_code |-> NoCode]

(***************************************************************************)
(* State.                                                                  *)
(***************************************************************************)
VARIABLES
    now,               \* the server's clock, Date.now()
    sessionRow,        \* the Session table: its first row, or NoSession
    apiKeyPair,        \* the ApiKeyPair table: rows [kid, createdAt]
    pixelNonce,        \* the PixelNonce table: a bag of rows [nonce, receivedAt]
    yahooConversion,   \* the YahooConversion table: a bag of rows
    sessionCache,      \* route.ts sessionCache
    privateKeyCache,   \* route.ts privateKeyCache: the kids it has a key for
    allowOriginCache,  \* route.ts allowOriginCache
    task,              \* the gateway invocations in flight, one per process
    served,            \* number of requests received so far
    accepted,          \* the order identifiers answered with 200 so far
    pow,               \* the web pixel computing and sending one token
    rot,               \* the invocation of generatePublicKey: its position and locals
    advertised,        \* the kid of the jwk in the web pixel's settings
    pushed,            \* the kids that were put into the settings, oldest first
    yahooAdApplication, \* the YahooAdApplication table: its row, or NoApp
    yahooAdAccount,    \* the YahooAdAccount table: its rows in order of id
    exp,               \* the run of createCsvAndImportToYahoo: its position and locals
    issued,            \* the access tokens the token endpoint has issued so far
    uploads,           \* the upload requests sent so far, oldest first, and whether they succeeded
    maint,             \* the daily maintenance task: its position and the days gone by
    cookies,           \* the browser's cookie store: browser.cookie.get()
    send,              \* the pixel's checkout_completed callback: its position and locals
    count              \* a digest and the difficulty counts of the two loops over it

RotationVars == <<rot, advertised, pushed>>

ExportVars == <<yahooAdApplication, yahooAdAccount, exp, issued, uploads>>

MaintenanceVars == <<maint>>

ClientVars == <<cookies, send>>

CountVars == <<count>>

vars == <<now, sessionRow, apiKeyPair, pixelNonce, yahooConversion, sessionCache,
          privateKeyCache, allowOriginCache, task, served, accepted, pow, RotationVars,
          ExportVars, MaintenanceVars, ClientVars,
                CountVars>>

Procs == 1..NumProcs

NoSession == "none"
TheShop == "shop.myshopify.com"
Null == [session |-> NoSession, expires |-> 0]
NoOrigin == [value |-> "none", expires |-> 0]

\* what admin.request reports for the order
Absent == [kind |-> "absent", createdAt |-> 0]
Threw == [kind |-> "threw", createdAt |-> 0]
Order(createdAt) == [kind |-> "order", createdAt |-> createdAt]
NotAsked == [kind |-> "none", createdAt |-> 0]

\* the answers of the order system at time t: no order, a transport error, an order
\* created just now, exactly two minutes ago, or three minutes ago
LookupResults(t) ==
    {Absent, Threw, Order(t), Order(t - ORDER_FRESH_MS), Order(t - ORDER_FRESH_MS - MsPerMin)}

\* an invocation: where it is, its body, its locals, whether a storage error hit it,
\* and its response
Idle ==
    [pc |-> "idle", body |-> EmptyBody, session |-> NoSession,
     gqlRes |-> NotAsked, fault |-> FALSE, resp |-> NoResponse]

\* the invocation has returned `response`; its locals other than the payload are gone
Return(t, response) == [t EXCEPT !.pc = "done", !.resp = response, !.gqlRes = NotAsked]

\* the same, for a return before the payload is known to the gateway
Reject(response) == [Idle EXCEPT !.pc = "done", !.resp = response]

\* the pixel: makePow's locals, the token, whether the loop was run to its end,
\* and the process and time of the delivery
PowIdle ==
    [pc |-> "idle", unixMin |-> 0, seedStr |-> <<>>, counter |-> 0, token |-> NoHeader,
     honest |-> TRUE, proc |-> 0, sentAt |-> 0]

\* generatePublicKey at rest: the number of invocations so far, the kid and the kept
\* kids of the current one, whether its push failed, and what it returned
RotIdle ==
    [pc |-> "idle", count |-> 0, kid |-> 0, keep |-> {}, pushFailed |-> FALSE,
     returned |-> "none"]

\* no row in YahooAdApplication
\* the maintenance task at rest
MaintIdle == [pc |-> "idle", days |-> 0]

\* getLatestYclid's null
NoMarker == [found |-> FALSE, yclid |-> <<>>, ts |-> [invalid |-> FALSE, ms |-> 0]]

\* the callback before the event: its locals, what it has done so far (encryptions,
\* tokens, POSTs, milliseconds waited), the outcome of its last POST, and how it ended
SendIdle ==
    [pc |-> "idle", savedYclid |-> NoMarker, retryCount |-> 0, encs |-> 0, pows |-> 0,
     posts |-> 0, waited |-> 0, last |-> "none", result |-> "none"]

\* no digest counted yet
CountIdle == [pc |-> "idle", hash |-> <<>>, server |-> 0, client |-> 0]

NoApp == [accessToken |-> 0, refreshToken |-> FALSE, configured |-> FALSE]

\* createCsvAndImportToYahoo at rest: the number of runs so far, the application and the
\* accounts it read, the token the refresh returned, the account it is at, the records
\* of that account's batch, what the upload came to, and the accounts it has queried
ExpIdle ==
    [pc |-> "idle", run |-> 0, app |-> NoApp, accounts |-> <<>>, accessToken |-> 0,
     i |-> 0, records |-> {}, outcome |-> "none", visited |-> {}, refreshed |-> FALSE]

(***************************************************************************)
(* The gateway: helpers of route.ts.                                       *)
(***************************************************************************)
Rows(table) == BagToSet(table)
Insert(table, row) == table (+) SetToBag({row})

\* getAllowOrigin: the cache after the call
getAllowOrigin ==
    IF allowOriginCache # NoOrigin /\ allowOriginCache.expires > now THEN allowOriginCache
    ELSE [value |-> IF sessionRow = NoSession THEN "" ELSE sessionRow,
          expires |-> now + ALLOW_ORIGIN_TTL_MS]

\* a cache hit that does not look at the expiry of the entry
SessionCacheHit_NeverExpires == sessionCache # Null

\* getSession: a cache hit while the entry has not expired
SessionCacheHit == sessionCache # Null /\ sessionCache.expires > now

\* getSession: the session it returns
getSession == IF SessionCacheHit THEN sessionCache.session ELSE sessionRow

\* getSession: the cache after the call
SessionCacheAfter ==
    IF SessionCacheHit \/ sessionRow = NoSession THEN sessionCache
    ELSE [session |-> sessionRow, expires |-> now + ALLOW_SESSION_TTL_MS]

\* getPrivateKey: db.apiKeyPair.findUnique({ where: { kid } })
KeyStored(kid) == \E r \in apiKeyPair : r.kid = kid

\* the typeof test on the six fields of the payload
ShapeOk(pl) ==
    /\ pl.yclid.t = "string"
    /\ pl.visitedAt.t = "string"
    /\ pl.conversionedAt.t = "string"
    /\ pl.amount.t = "number"
    /\ pl.orderId.t = "string"
    /\ pl.nonce.t = "string"

\* compactDecrypt with the private key of `kid`: only what that key encrypted opens
DecryptOk(body, kid) == body.encKid = kid

\* steps 4 and 5 once session and key are resolved: the invocation's next state
AfterResolve(t, session, key) ==
    IF session = NoSession THEN Reject(errorResponse(5))
    ELSE IF ~key THEN Reject(errorResponse(6))
    ELSE IF ~DecryptOk(t.body, t.body.kid) THEN Reject(InternalServerError)
    ELSE IF t.body.plaintext = NotJson THEN Reject(InternalServerError)
    ELSE IF ~ShapeOk(t.body.plaintext) THEN Reject(errorResponse(7))
    ELSE [t EXCEPT !.pc = "dedup", !.session = session]

\* NonceTaken for a PixelNonce table without its primary key
NonceTaken_NoPrimaryKey(nonce) == FALSE

\* db.pixelNonce.create fails with P2002: the nonce is the primary key
NonceTaken(nonce) == \E r \in Rows(pixelNonce) : r.nonce = nonce

\* FindFirst with the order identifier compared against the wrong column
FindFirst_WrongColumn(orderId) == \E r \in Rows(yahooConversion) : r.amount = orderId

\* db.yahooConversion.findFirst({ where: { orderId } })
FindFirst(orderId) == \E r \in Rows(yahooConversion) : r.orderId = orderId

\* Existing with the P2002 of the nonce swallowed instead of reported as a duplicate
Existing_NonceIgnored(nonce, orderId) == \E r \in Rows(yahooConversion) : r.orderId = orderId

\* `existing` after the transaction of step 6 and its catch
Existing(nonce, orderId) == NonceTaken(nonce) \/ FindFirst(orderId)

\* the freshness test of step 7 at time t
Stale(createdAt, t) == (t - createdAt) > ORDER_FRESH_MS

\* YclidTaken for a YahooConversion table without its primary key
YclidTaken_NoPrimaryKey(yclid) == FALSE

\* db.yahooConversion.create fails with P2002: yclid is the primary key
YclidTaken(yclid) == \E r \in Rows(yahooConversion) : r.yclid = yclid

\* the row that step 8 creates
ConversionRow(pl) ==
    [yclid |-> pl.yclid.v, amount |-> pl.amount.v, visitedAt |-> pl.visitedAt.v,
     conversionedAt |-> pl.conversionedAt.v, isProcessed |-> FALSE, orderId |-> pl.orderId.v]

(***************************************************************************)
(* The gateway: action of route.ts, cut at its awaits.                     *)
(***************************************************************************)
GatewayFrame ==
    UNCHANGED <<now, sessionRow, apiKeyPair, RotationVars, ExportVars, MaintenanceVars,
                ClientVars,
                CountVars>>

\* steps 1 to 3 with a proof of work that can be used once: after the first request
\* every token is refused
Accept_TokenUsedOnce(p, r) ==
    /\ task[p].pc = "idle"
    /\ served < MaxRequests
    /\ served' = served + 1
    /\ allowOriginCache' = getAllowOrigin
    /\ task' = [task EXCEPT ![p] =
            IF r.method # "POST" THEN Reject(errorResponse(1))
            ELSE IF ~checkPow(r.pow, now) \/ served > 0 THEN Reject(errorResponse(2))
            ELSE IF r.body.kind = "empty" THEN Reject(errorResponse(3))
            ELSE IF r.body.kind = "garbage" THEN Reject(InternalServerError)
            ELSE IF r.body.alg # "RSA-OAEP-256" THEN Reject(errorResponse(4))
            ELSE [Idle EXCEPT !.pc = "resolve", !.body = r.body]]
    /\ UNCHANGED <<pixelNonce, yahooConversion, sessionCache, privateKeyCache, accepted>>
    /\ GatewayFrame

\* buildCorsHeaders and steps 1 to 3 on request r: method, proof of work, body, algorithm
Accept(p, r) ==
    /\ task[p].pc = "idle"
    /\ served < MaxRequests
    /\ served' = served + 1
    /\ allowOriginCache' = getAllowOrigin
    /\ task' = [task EXCEPT ![p] =
            IF r.method # "POST" THEN Reject(errorResponse(1))
            ELSE IF ~checkPow(r.pow, now) THEN Reject(errorResponse(2))
            ELSE IF r.body.kind = "empty" THEN Reject(errorResponse(3))
            ELSE IF r.body.kind = "garbage" THEN Reject(InternalServerError)
            ELSE IF r.body.alg # "RSA-OAEP-256" THEN Reject(errorResponse(4))
            ELSE [Idle EXCEPT !.pc = "resolve", !.body = r.body]]
    /\ UNCHANGED <<pixelNonce, yahooConversion, sessionCache, privateKeyCache, accepted>>
    /\ GatewayFrame

\* a request from anywhere
Receive(p, r) == Accept(p, r) /\ UNCHANGED pow

\* step 4: getSession and getPrivateKey up to the import of a stored key
Resolve(p) ==
    /\ task[p].pc = "resolve"
    /\ sessionCache' = SessionCacheAfter
    /\ LET kid == task[p].body.kid
       IN  IF kid \in privateKeyCache THEN
                /\ task' = [task EXCEPT ![p] = AfterResolve(@, getSession, TRUE)]
                /\ UNCHANGED privateKeyCache
           ELSE IF ~KeyStored(kid) THEN
                /\ task' = [task EXCEPT ![p] = AfterResolve(@, getSession, FALSE)]
                /\ UNCHANGED privateKeyCache
           ELSE /\ privateKeyCache' = {}
                /\ task' = [task EXCEPT ![p] = [@ EXCEPT !.pc = "import", !.session = getSession]]
    /\ UNCHANGED <<pixelNonce, yahooConversion, allowOriginCache, served, accepted, pow>>
    /\ GatewayFrame

\* an import that writes the nonce of the delivery before the payload has been checked
ImportKey_ConsumesNonce(p) ==
    /\ task[p].pc = "import"
    /\ privateKeyCache' = privateKeyCache \cup {task[p].body.kid}
    /\ pixelNonce' = Insert(pixelNonce, [nonce |-> task[p].body.plaintext.nonce.v,
                                         receivedAt |-> now])
    /\ task' = [task EXCEPT ![p] = AfterResolve(@, @.session, TRUE)]
    /\ UNCHANGED <<yahooConversion, sessionCache, allowOriginCache, served, accepted, pow>>
    /\ GatewayFrame

\* getPrivateKey after importPKCS8: the key enters the cache; then step 5
ImportKey(p) ==
    /\ task[p].pc = "import"
    /\ privateKeyCache' = privateKeyCache \cup {task[p].body.kid}
    /\ task' = [task EXCEPT ![p] = AfterResolve(@, @.session, TRUE)]
    /\ UNCHANGED <<pixelNonce, yahooConversion, sessionCache, allowOriginCache, served,
                   accepted, pow>>
    /\ GatewayFrame

\* step 6: the transaction; `fault` is a storage error other than P2002
Dedup(p, fault) ==
    /\ task[p].pc = "dedup"
    /\ LET nonce == task[p].body.plaintext.nonce.v
           orderId == task[p].body.plaintext.orderId.v
       IN  IF fault THEN
                /\ task' = [task EXCEPT ![p] = Return([@ EXCEPT !.fault = TRUE], InternalServerError)]
                /\ UNCHANGED pixelNonce
           ELSE /\ pixelNonce' = IF NonceTaken(nonce) THEN pixelNonce
                                 ELSE Insert(pixelNonce, [nonce |-> nonce, receivedAt |-> now])
                /\ task' = [task EXCEPT ![p] =
                        IF Existing(nonce, orderId) THEN Return(@, errorResponse(8))
                        ELSE [@ EXCEPT !.pc = "lookup"]]
    /\ UNCHANGED <<yahooConversion, sessionCache, privateKeyCache, allowOriginCache, served,
                   accepted, pow>>
    /\ GatewayFrame

\* a first lookup that asks again after a transport error as well
Lookup_RetriesAfterThrow(p, res) ==
    /\ task[p].pc = "lookup"
    /\ res \in LookupResults(now)
    /\ task' = [task EXCEPT ![p] =
            IF res \in {Threw, Absent} THEN [@ EXCEPT !.pc = "retry", !.gqlRes = res]
            ELSE IF Stale(res.createdAt, now) THEN Return(@, errorResponse(10))
            ELSE [@ EXCEPT !.pc = "persist", !.gqlRes = res]]
    /\ UNCHANGED <<pixelNonce, yahooConversion, sessionCache, privateKeyCache,
                   allowOriginCache, served, accepted, pow>>
    /\ GatewayFrame

\* step 7: the first lookup, and the freshness test when it finds the order
Lookup(p, res) ==
    /\ task[p].pc = "lookup"
    /\ res \in LookupResults(now)
    /\ task' = [task EXCEPT ![p] =
            IF res = Threw THEN Return(@, errorResponse(11))
            ELSE IF res = Absent THEN [@ EXCEPT !.pc = "retry", !.gqlRes = res]
            ELSE IF Stale(res.createdAt, now) THEN Return(@, errorResponse(10))
            ELSE [@ EXCEPT !.pc = "persist", !.gqlRes = res]]
    /\ UNCHANGED <<pixelNonce, yahooConversion, sessionCache, privateKeyCache,
                   allowOriginCache, served, accepted, pow>>
    /\ GatewayFrame

\* step 7: the retry.  Its result is bound to a gqlRes of the inner block, so the
\* freshness test that follows reads the order of the first, orderless, result and throws
Retry(p, res) ==
    /\ task[p].pc = "retry"
    /\ res \in LookupResults(now)
    /\ task' = [task EXCEPT ![p] =
            IF res = Threw THEN Return(@, errorResponse(11))
            ELSE IF res = Absent THEN Return(@, errorResponse(9))
            ELSE Return(@, errorResponse(11))]
    /\ UNCHANGED <<pixelNonce, yahooConversion, sessionCache, privateKeyCache,
                   allowOriginCache, served, accepted, pow>>
    /\ GatewayFrame

\* a create that stores the row although it reports a failure
Persist_StoresAnyway(p, fault) ==
    /\ task[p].pc = "persist"
    /\ LET pl == task[p].body.plaintext
       IN  IF YclidTaken(pl.yclid.v) THEN
                /\ task' = [task EXCEPT ![p] = Return(@, errorResponse(12))]
                /\ UNCHANGED <<yahooConversion, accepted>>
           ELSE /\ yahooConversion' = Insert(yahooConversion, ConversionRow(pl))
                /\ IF fault
                   THEN /\ task' = [task EXCEPT ![p] =
                                Return([@ EXCEPT !.fault = TRUE], errorResponse(12))]
                        /\ UNCHANGED accepted
                   ELSE /\ accepted' = accepted \cup {pl.orderId.v}
                        /\ task' = [task EXCEPT ![p] = Return(@, Success)]
    /\ UNCHANGED <<pixelNonce, sessionCache, privateKeyCache, allowOriginCache, served, pow>>
    /\ GatewayFrame

\* a step 8 that gives the nonce back when the create fails
Persist_ReleasesNonce(p, fault) ==
    /\ task[p].pc = "persist"
    /\ LET pl == task[p].body.plaintext
       IN  IF fault \/ YclidTaken(pl.yclid.v) THEN
                /\ task' = [task EXCEPT ![p] = Return([@ EXCEPT !.fault = fault], errorResponse(12))]
                /\ pixelNonce' = [r \in {x \in DOMAIN pixelNonce : x.nonce # pl.nonce.v}
                                    |-> pixelNonce[r]]
                /\ UNCHANGED <<yahooConversion, accepted>>
           ELSE /\ yahooConversion' = Insert(yahooConversion, ConversionRow(pl))
                /\ accepted' = accepted \cup {pl.orderId.v}
                /\ task' = [task EXCEPT ![p] = Return(@, Success)]
                /\ UNCHANGED pixelNonce
    /\ UNCHANGED <<sessionCache, privateKeyCache, allowOriginCache, served, pow>>
    /\ GatewayFrame

\* step 8: db.yahooConversion.create; `fault` is a storage error
Persist(p, fault) ==
    /\ task[p].pc = "persist"
    /\ LET pl == task[p].body.plaintext
       IN  IF fault \/ YclidTaken(pl.yclid.v) THEN
                /\ task' = [task EXCEPT ![p] = Return([@ EXCEPT !.fault = fault], errorResponse(12))]
                /\ UNCHANGED <<yahooConversion, accepted>>
           ELSE /\ yahooConversion' = Insert(yahooConversion, ConversionRow(pl))
                /\ accepted' = accepted \cup {pl.orderId.v}
                /\ task' = [task EXCEPT ![p] = Return(@, Success)]
    /\ UNCHANGED <<pixelNonce, sessionCache, privateKeyCache, allowOriginCache, served, pow>>
    /\ GatewayFrame

\* the response has been sent; the process takes the next request
Respond(p) ==
    /\ task[p].pc = "done"
    /\ task' = [task EXCEPT ![p] = Idle]
    /\ UNCHANGED <<pixelNonce, yahooConversion, sessionCache, privateKeyCache,
                   allowOriginCache, served, accepted, pow>>
    /\ GatewayFrame

\* a minute passes
Tick ==
    /\ now < StartTime + MaxTicks * MsPerMin
    /\ now' = now + MsPerMin
    /\ UNCHANGED <<sessionRow, apiKeyPair, pixelNonce, yahooConversion, sessionCache,
                   privateKeyCache, allowOriginCache, task, served, accepted, pow,
                   RotationVars, ExportVars, MaintenanceVars, ClientVars,
                CountVars>>

Init ==
    /\ now = StartTime
    /\ sessionRow \in {NoSession, TheShop}
    /\ apiKeyPair = {[kid |-> 1, createdAt |-> StartTime]}
    /\ pixelNonce = EmptyBag
    /\ yahooConversion = EmptyBag
    /\ sessionCache = Null
    /\ privateKeyCache = {}
    /\ allowOriginCache = NoOrigin
    /\ task = [p \in Procs |-> Idle]
    /\ served = 0
    /\ accepted = {}
    /\ pow = PowIdle
    /\ rot = RotIdle
    /\ advertised = 1
    /\ pushed = <<1>>
    /\ yahooAdApplication = NoApp
    /\ yahooAdAccount = <<>>
    /\ exp = ExpIdle
    /\ issued = 0
    /\ uploads = <<>>
    /\ maint = MaintIdle
    /\ cookies = <<>>
    /\ send = SendIdle
    /\ count = CountIdle

Next ==
    \/ \E p \in Procs, r \in Requests : Receive(p, r)
    \/ \E p \in Procs : Resolve(p)
    \/ \E p \in Procs : ImportKey(p)
    \/ \E p \in Procs, fault \in BOOLEAN : Dedup(p, fault)
    \/ \E p \in Procs, res \in LookupResults(now) : Lookup(p, res)
    \/ \E p \in Procs, res \in LookupResults(now) : Retry(p, res)
    \/ \E p \in Procs, fault \in BOOLEAN : Persist(p, fault)
    \/ \E p \in Procs : Respond(p)
    \/ Tick

Spec == Init /\ [][Next]_vars

\* an invocation that arrives while no other one is in flight
ReceiveAlone(p, r) == (\A q \in Procs : task[q].pc = "idle") /\ Receive(p, r)

\* the gateway with its invocations one after the other: the behaviours of Spec in
\* which no two invocations overlap
NextSerial ==
    \/ \E p \in Procs, r \in Requests : ReceiveAlone(p, r)
    \/ \E p \in Procs : Resolve(p)
    \/ \E p \in Procs : ImportKey(p)
    \/ \E p \in Procs, fault \in BOOLEAN : Dedup(p, fault)
    \/ \E p \in Procs, res \in LookupResults(now) : Lookup(p, res)
    \/ \E p \in Procs, res \in LookupResults(now) : Retry(p, res)
    \/ \E p \in Procs, fault \in BOOLEAN : Persist(p, fault)
    \/ \E p \in Procs : Respond(p)
    \/ Tick

SpecSerial == Init /\ [][NextSerial]_vars

\* loader: buildCorsHeaders, then 204 for OPTIONS and errorResponse(0) for the rest
\* a loader without the branch for OPTIONS
Loader_NoPreflight(p, method) ==
    /\ task[p].pc = "idle"
    /\ served < MaxRequests
    /\ served' = served + 1
    /\ allowOriginCache' = getAllowOrigin
    /\ task' = [task EXCEPT ![p] = Reject(errorResponse(0))]
    /\ UNCHANGED <<pixelNonce, yahooConversion, sessionCache, privateKeyCache, accepted, pow>>
    /\ GatewayFrame

Loader(p, method) ==
    /\ task[p].pc = "idle"
    /\ served < MaxRequests
    /\ served' = served + 1
    /\ allowOriginCache' = getAllowOrigin
    /\ task' = [task EXCEPT ![p] =
            IF method = "OPTIONS" THEN Reject(Preflight) ELSE Reject(errorResponse(0))]
    /\ UNCHANGED <<pixelNonce, yahooConversion, sessionCache, privateKeyCache, accepted, pow>>
    /\ GatewayFrame

\* the endpoint: loader and action, one invocation at a time
NextEndpoint ==
    \/ \E p \in Procs, method \in LoaderMethods : Loader(p, method)
    \/ \E p \in Procs, r \in Requests : ReceiveAlone(p, r)
    \/ \E p \in Procs : Resolve(p)
    \/ \E p \in Procs : ImportKey(p)
    \/ \E p \in Procs, fault \in BOOLEAN : Dedup(p, fault)
    \/ \E p \in Procs, res \in LookupResults(now) : Lookup(p, res)
    \/ \E p \in Procs, res \in LookupResults(now) : Retry(p, res)
    \/ \E p \in Procs, fault \in BOOLEAN : Persist(p, fault)
    \/ \E p \in Procs : Respond(p)
    \/ Tick

SpecEndpoint == Init /\ [][NextEndpoint]_vars

(***************************************************************************)
(* The web pixel: makePow of index.ts, one pass of its loop per step, and  *)
(* the POST that carries the token.  The browser is not trusted: it may    *)
(* send the token of a pass that did not meet the difficulty.              *)
(***************************************************************************)
\* the salts rand16 is drawn from
Salts == {<<55>>, <<52, 50>>}

\* the browser's clock, up to three minutes behind or ahead of the server's first minute
ClientTimes == {StartTime + k * (MsPerMin \div 2) : k \in (0 - 6)..6}

PowFrame ==
    UNCHANGED <<now, sessionRow, apiKeyPair, pixelNonce, yahooConversion, sessionCache,
                privateKeyCache, allowOriginCache, task, served, accepted, RotationVars,
                ExportVars, MaintenanceVars, ClientVars,
                CountVars>>

\* makePow up to its loop, at client time t
MakePowStart(t, rand16) ==
    /\ pow.pc = "idle"
    /\ pow' = [pow EXCEPT !.pc = "loop", !.unixMin = t \div MsPerMin,
                          !.seedStr = SeedStr(t, rand16), !.counter = 0]
    /\ PowFrame

\* one pass of the loop: return the token, or count on
MakePowLoop ==
    /\ pow.pc = "loop"
    /\ IF ClientMeets(pow.seedStr, pow.counter)
       THEN pow' = [pow EXCEPT !.pc = "made", !.token = btoa(pow.seedStr \o Digits(pow.counter))]
       ELSE /\ pow.counter < MaxCounter
            /\ pow' = [pow EXCEPT !.counter = @ + 1]
    /\ PowFrame

\* a browser that skips the work: the token of a pass that misses the difficulty
ForgePow ==
    /\ pow.pc = "loop"
    /\ ~ClientMeets(pow.seedStr, pow.counter)
    /\ pow' = [pow EXCEPT !.pc = "made", !.honest = FALSE,
                          !.token = btoa(pow.seedStr \o Digits(pow.counter))]
    /\ PowFrame

\* sendConversionData's fetch: the POST with the token in X-POW arrives at process p
SendPow(p) ==
    /\ pow.pc = "made"
    /\ Accept(p, [method |-> "POST", pow |-> pow.token, body |-> BaseBody])
    /\ pow' = [pow EXCEPT !.pc = "sent", !.proc = p, !.sentAt = now]

NextPow ==
    \/ \E t \in ClientTimes, rand16 \in Salts : MakePowStart(t, rand16)
    \/ MakePowLoop
    \/ ForgePow
    \/ \E p \in Procs : SendPow(p)
    \/ \E p \in Procs : Resolve(p)
    \/ \E p \in Procs : ImportKey(p)
    \/ \E p \in Procs, fault \in BOOLEAN : Dedup(p, fault)
    \/ \E p \in Procs, res \in LookupResults(now) : Lookup(p, res)
    \/ \E p \in Procs, res \in LookupResults(now) : Retry(p, res)
    \/ \E p \in Procs, fault \in BOOLEAN : Persist(p, fault)
    \/ Tick

SpecPow == Init /\ [][NextPow]_vars

(***************************************************************************)
(* Key rotation: generatePublicKey.ts, run by the scheduler every ten       *)
(* minutes, one step per database or Admin API call.                       *)
(***************************************************************************)
\* minutes between two runs: cron "*/10 * * * *"
RotateEveryMin == 10

\* findMany's `take`
KEEP == 3

\* findMany({ orderBy: createdAt desc, take: 3 }): the kids of the newest rows
NewestKids(rows) ==
    {r.kid : r \in {x \in rows : Cardinality({y \in rows : y.createdAt > x.createdAt}) < KEEP}}

\* what the two Admin API calls of the push can come to
PushOutcomes == {"ok", "threw", "noPixel", "userErrors"}

RotationFrame ==
    UNCHANGED <<sessionRow, pixelNonce, yahooConversion, sessionCache, privateKeyCache,
                allowOriginCache, task, served, accepted, pow, ExportVars, MaintenanceVars,
                ClientVars,
                CountVars>>

\* the catch of line 118: the invocation returns false
ReturnFalse(r) == [r EXCEPT !.pc = "done", !.returned = "false"]

\* a scheduler that stops calling generatePublicKey once it has returned false
RotateCreate_StopsAfterFailure(fault) ==
    /\ rot.pc \in {"idle", "done"}
    /\ rot.returned # "false"
    /\ rot.count < MaxRotations
    /\ now' = now + RotateEveryMin * MsPerMin
    /\ LET kid == rot.count + 2
           r == [RotIdle EXCEPT !.count = rot.count + 1, !.kid = kid]
       IN  IF fault
           THEN rot' = ReturnFalse(r) /\ UNCHANGED apiKeyPair
           ELSE /\ apiKeyPair' = apiKeyPair \cup {[kid |-> kid, createdAt |-> now']}
                /\ rot' = [r EXCEPT !.pc = "findMany"]
    /\ UNCHANGED <<advertised, pushed>>
    /\ RotationFrame

\* the scheduler starts generatePublicKey: a new kid, db.apiKeyPair.create
RotateCreate(fault) ==
    /\ rot.pc \in {"idle", "done"}
    /\ rot.count < MaxRotations
    /\ now' = now + RotateEveryMin * MsPerMin
    /\ LET kid == rot.count + 2
           r == [RotIdle EXCEPT !.count = rot.count + 1, !.kid = kid]
       IN  IF fault
           THEN rot' = ReturnFalse(r) /\ UNCHANGED apiKeyPair
           ELSE /\ apiKeyPair' = apiKeyPair \cup {[kid |-> kid, createdAt |-> now']}
                /\ rot' = [r EXCEPT !.pc = "findMany"]
    /\ UNCHANGED <<advertised, pushed>>
    /\ RotationFrame

\* db.apiKeyPair.findMany: the three newest
RotateFindMany(fault) ==
    /\ rot.pc = "findMany"
    /\ rot' = IF fault THEN ReturnFalse(rot)
              ELSE [rot EXCEPT !.pc = "deleteMany", !.keep = NewestKids(apiKeyPair)]
    /\ UNCHANGED <<now, apiKeyPair, advertised, pushed>>
    /\ RotationFrame

\* db.apiKeyPair.deleteMany({ kid notIn })
RotateDeleteMany(fault) ==
    /\ rot.pc = "deleteMany"
    /\ IF fault
       THEN rot' = ReturnFalse(rot) /\ UNCHANGED apiKeyPair
       ELSE /\ apiKeyPair' = {r \in apiKeyPair : r.kid \in rot.keep}
            /\ rot' = [rot EXCEPT !.pc = "push"]
    /\ UNCHANGED <<now, advertised, pushed>>
    /\ RotationFrame

\* lines 77 to 115: the session, the pixel's id, webPixelUpdate
RotatePush(outcome) ==
    /\ rot.pc = "push"
    /\ IF sessionRow = NoSession \/ outcome \in {"threw", "noPixel"}
       THEN /\ rot' = [ReturnFalse(rot) EXCEPT !.pushFailed = TRUE]
            /\ UNCHANGED <<advertised, pushed>>
       ELSE IF outcome = "userErrors"
       THEN /\ rot' = [rot EXCEPT !.pc = "rollback", !.pushFailed = TRUE]
            /\ UNCHANGED <<advertised, pushed>>
       ELSE /\ rot' = [rot EXCEPT !.pc = "done", !.returned = "true"]
            /\ advertised' = rot.kid
            /\ pushed' = Append(pushed, rot.kid)
    /\ UNCHANGED <<now, apiKeyPair>>
    /\ RotationFrame

\* line 113: db.apiKeyPair.delete of the new kid, then the throw
RotateRollback(fault) ==
    /\ rot.pc = "rollback"
    /\ rot' = ReturnFalse(rot)
    /\ apiKeyPair' = IF fault THEN apiKeyPair ELSE {r \in apiKeyPair : r.kid # rot.kid}
    /\ UNCHANGED <<now, advertised, pushed>>
    /\ RotationFrame

NextRotate ==
    \/ \E fault \in BOOLEAN : RotateCreate(fault)
    \/ \E fault \in BOOLEAN : RotateFindMany(fault)
    \/ \E fault \in BOOLEAN : RotateDeleteMany(fault)
    \/ \E outcome \in PushOutcomes : RotatePush(outcome)
    \/ \E fault \in BOOLEAN : RotateRollback(fault)

SpecRotate == Init /\ [][NextRotate]_vars

\* the rotation under its schedule: the cron expression fires every ten minutes for as
\* long as the process lives, and every call of an invocation settles
SpecRotateFair ==
    /\ Init /\ [][NextRotate]_vars
    /\ WF_vars(\E fault \in BOOLEAN : RotateCreate(fault))
    /\ WF_vars(\E fault \in BOOLEAN : RotateFindMany(fault))
    /\ WF_vars(\E fault \in BOOLEAN : RotateDeleteMany(fault))
    /\ WF_vars(\E outcome \in PushOutcomes : RotatePush(outcome))
    /\ WF_vars(\E fault \in BOOLEAN : RotateRollback(fault))

(***************************************************************************)
(* The exporter: createCsvAndImportToYahoo, run by the scheduler, one step  *)
(* per database call or request.                                           *)
(***************************************************************************)
MsPerHour == 60 * MsPerMin
MsPerDay == 24 * MsPerHour

\* constants.ts YCLID_PREFIX, as characters
YCLID_PREFIX == [search |-> <<"Y", "S", "S">>, display |-> <<"Y", "J", "A", "D">>]

\* startsWith
StartsWith(str, prefix) ==
    Len(str) >= Len(prefix) /\ SubSeq(str, 1, Len(prefix)) = prefix

\* the clock at the start of the first run
ExportTime == 3 * MsPerDay

Account(type, duration, title) ==
    [type |-> type, accountId |-> "base", childAccountId |-> "child",
     duration |-> duration, conversionTitle |-> title]

\* the account tables of the model: a search and a display account; two search accounts
\* around one without a conversion title
AccountTables ==
    {<<Account("search", 1, "cv"), Account("display", 2, "cv")>>,
     <<Account("search", 1, "cv"), Account("search", 2, ""), Account("search", 2, "cv")>>}

Conversion(yclid, visitedAt, conversionedAt, isProcessed) ==
    [yclid |-> yclid, amount |-> Amount, visitedAt |-> visitedAt,
     conversionedAt |-> conversionedAt, isProcessed |-> isProcessed, orderId |-> Len(yclid)]

\* the rows the YahooConversion table may hold when the first run starts: visited an
\* hour or a day and a minute ago, converted half an hour ago, an hour ago, an hour
\* and a minute ago or at this instant, of either network, one of them processed
ConversionPool ==
    LET t == ExportTime
    IN  {Conversion(<<"Y", "S", "S", ".", "1">>, t - MsPerHour, t - 30 * MsPerMin, FALSE),
         Conversion(<<"Y", "S", "S", ".", "1", "2">>, t - MsPerDay - MsPerMin, t - 30 * MsPerMin, FALSE),
         Conversion(<<"Y", "J", "A", "D", ".", "1", "2", "3">>, t - MsPerDay - MsPerMin, t - MsPerHour, FALSE),
         Conversion(<<"Y", "J", "A", "D", ".", "1", "2", "3", "4">>, t - MsPerHour, t - MsPerHour - MsPerMin, FALSE),
         Conversion(<<"Y", "S", "S", ".", "1", "2", "3", "4", "5">>, t - MsPerHour, t - 30 * MsPerMin, TRUE),
         Conversion(<<"Y", "S", "S", ".", "1", "2", "3", "4", "5", "6">>, t - MsPerHour, t, FALSE)}

\* line 53: an account with an empty field is passed over
Complete(account) ==
    /\ account.type # ""
    /\ account.accountId # ""
    /\ account.childAccountId # ""
    /\ account.conversionTitle # ""

\* FindUnprocessed without the lower end of the window of visits
FindUnprocessed_NoWindow(account, t) ==
    {r \in Rows(yahooConversion) :
        /\ StartsWith(r.yclid, YCLID_PREFIX[account.type])
        /\ r.visitedAt < t
        /\ r.isProcessed = FALSE
        /\ r.conversionedAt >= t - MsPerHour
        /\ r.conversionedAt < t}

\* lines 56 to 80: findMany at time t for the account
FindUnprocessed(account, t) ==
    {r \in Rows(yahooConversion) :
        /\ StartsWith(r.yclid, YCLID_PREFIX[account.type])
        /\ r.visitedAt >= t - account.duration * MsPerDay
        /\ r.visitedAt < t
        /\ r.isProcessed = FALSE
        /\ r.conversionedAt >= t - MsPerHour
        /\ r.conversionedAt < t}

\* MarkProcessed as a loop of single updates that stops after the first row
MarkProcessed_FirstOnly(table, yclids) ==
    SetToBag({IF yclids # {} /\ r.yclid = (CHOOSE y \in yclids : TRUE)
              THEN [r EXCEPT !.isProcessed = TRUE] ELSE r : r \in Rows(table)})

\* an update that sets the flag of the batch and clears it on every other row
MarkProcessed_ResetOthers(table, yclids) ==
    SetToBag({[r EXCEPT !.isProcessed = (r.yclid \in yclids)] : r \in Rows(table)})

\* lines 170 to 173: updateMany({ where: { yclid: { in } }, data: { isProcessed: true } })
MarkProcessed(table, yclids) ==
    SetToBag({IF r.yclid \in yclids THEN [r EXCEPT !.isProcessed = TRUE] ELSE r :
              r \in Rows(table)})

ExportFrame ==
    UNCHANGED <<sessionRow, apiKeyPair, pixelNonce, sessionCache, privateKeyCache,
                allowOriginCache, task, served, accepted, pow, RotationVars, yahooAdAccount,
                MaintenanceVars, ClientVars,
                CountVars>>

\* the run is over: a return, or the catch of line 176
EndRun(e) == [e EXCEPT !.pc = "done"]

\* `continue`, or the end of the loop's body
NextAccount(e) ==
    [e EXCEPT !.pc = IF e.i + 1 > Len(e.accounts) THEN "done" ELSE "query",
              !.i = e.i + 1, !.records = {}]

\* lines 35 to 40: the application and the accounts are read
ExportBegin(fault) ==
    /\ exp.pc \in {"idle", "done"}
    /\ exp.run < MaxRuns
    /\ LET e == [ExpIdle EXCEPT !.run = exp.run + 1]
       IN  exp' = IF fault \/ ~yahooAdApplication.configured \/ yahooAdAccount = <<>>
                  THEN EndRun(e)
                  ELSE [e EXCEPT !.pc = "refresh", !.app = yahooAdApplication,
                                 !.accounts = yahooAdAccount]
    /\ UNCHANGED <<now, yahooConversion, yahooAdApplication, issued, uploads>>
    /\ ExportFrame

\* the token endpoint's answers to getYahooAdToken, and a failure of its database update
RefreshOutcomes == {"ok", "notOk", "updateFailed"}

\* lines 43 to 49: getYahooAdToken(yahooAdApplication, true) and the update of the row
ExportRefresh(outcome) ==
    /\ exp.pc = "refresh"
    /\ IF ~exp.app.refreshToken \/ outcome = "notOk"
       THEN /\ exp' = EndRun(exp)
            /\ UNCHANGED <<yahooAdApplication, issued>>
       ELSE /\ issued' = issued + 1
            /\ IF outcome = "updateFailed"
               THEN exp' = EndRun(exp) /\ UNCHANGED yahooAdApplication
               ELSE /\ yahooAdApplication' =
                        [yahooAdApplication EXCEPT !.accessToken = issued']
                    /\ exp' = [exp EXCEPT !.pc = "query", !.i = 1, !.refreshed = TRUE,
                                          !.accessToken = issued']
    /\ UNCHANGED <<now, yahooConversion, uploads>>
    /\ ExportFrame

\* the time that passes before an account's `new Date()`
Delays == {0, MsPerMin}

\* lines 52 to 84: the next account, its window and its records
ExportQuery(delay, fault) ==
    /\ exp.pc = "query"
    /\ LET account == exp.accounts[exp.i]
       IN  IF ~Complete(account)
           THEN exp' = NextAccount(exp) /\ UNCHANGED now
           ELSE /\ now' = now + delay
                /\ LET e == [exp EXCEPT !.visited = @ \cup {exp.i}, !.outcome = "none"]
                       records == FindUnprocessed(account, now')
                   IN  exp' = IF fault THEN EndRun(e)
                              ELSE IF records = {} THEN NextAccount(e)
                              ELSE [e EXCEPT !.pc = "upload", !.records = records]
    /\ UNCHANGED <<yahooConversion, yahooAdApplication, issued, uploads>>
    /\ ExportFrame

\* what the fetch of line 146 can come to
UploadOutcomes == {"ok", "threw", "notOk", "rowErrors"}

\* lines 86 to 167: the request with its Authorization header, and its response
ExportUpload(outcome) ==
    /\ exp.pc = "upload"
    /\ uploads' = Append(uploads,
            [run |-> exp.run, account |-> exp.i, yclids |-> {r.yclid : r \in exp.records},
             token |-> exp.app.accessToken, ok |-> outcome = "ok"])
    /\ exp' = IF outcome \in {"threw", "notOk"}
              THEN NextAccount([exp EXCEPT !.outcome = outcome])
              ELSE [exp EXCEPT !.pc = "mark", !.outcome = outcome]
    /\ UNCHANGED <<now, yahooConversion, yahooAdApplication, issued>>
    /\ ExportFrame

\* lines 169 to 175: the bulk update of the batch
ExportMark(fault) ==
    /\ exp.pc = "mark"
    /\ IF fault
       THEN exp' = EndRun(exp) /\ UNCHANGED yahooConversion
       ELSE /\ yahooConversion' =
                    MarkProcessed(yahooConversion, {r.yclid : r \in exp.records})
            /\ exp' = NextAccount(exp)
    /\ UNCHANGED <<now, yahooAdApplication, issued, uploads>>
    /\ ExportFrame

\* the application is authorised, with or without a refresh token, and accounts and
\* conversions are in the tables
InitExport ==
    /\ now = ExportTime
    /\ sessionRow = TheShop
    /\ apiKeyPair = {[kid |-> 1, createdAt |-> StartTime]}
    /\ pixelNonce = EmptyBag
    /\ yahooConversion \in {SetToBag(rows) : rows \in SUBSET ConversionPool}
    /\ sessionCache = Null
    /\ privateKeyCache = {}
    /\ allowOriginCache = NoOrigin
    /\ task = [p \in Procs |-> Idle]
    /\ served = 0
    /\ accepted = {}
    /\ pow = PowIdle
    /\ rot = RotIdle
    /\ advertised = 1
    /\ pushed = <<1>>
    /\ yahooAdApplication \in
            {NoApp} \cup [accessToken : {0}, refreshToken : BOOLEAN, configured : {TRUE}]
    /\ yahooAdAccount \in AccountTables \cup {<<>>}
    /\ exp = ExpIdle
    /\ issued = 0
    /\ uploads = <<>>
    /\ maint = MaintIdle
    /\ cookies = <<>>
    /\ send = SendIdle
    /\ count = CountIdle

NextExport ==
    \/ \E fault \in BOOLEAN : ExportBegin(fault)
    \/ \E outcome \in RefreshOutcomes : ExportRefresh(outcome)
    \/ \E delay \in Delays, fault \in BOOLEAN : ExportQuery(delay, fault)
    \/ \E outcome \in UploadOutcomes : ExportUpload(outcome)
    \/ \E fault \in BOOLEAN : ExportMark(fault)

SpecExport == InitExport /\ [][NextExport]_vars

(***************************************************************************)
(* The exporter on its schedule: a run every 20 minutes, with a database   *)
(* and a token endpoint that answer, and uploads that may fail.  Each run  *)
(* that is due starts and each started call returns.                       *)
(***************************************************************************)
\* the minutes of "*/20 * * * *"
ExportEveryMin == 20

\* the scheduler starts the next run, 20 minutes after the previous start
ExportOnSchedule ==
    /\ exp.pc \in {"idle", "done"}
    /\ exp.run < MaxRuns
    /\ now' = now + ExportEveryMin * MsPerMin
    /\ LET e == [ExpIdle EXCEPT !.run = exp.run + 1]
       IN  exp' = IF ~yahooAdApplication.configured \/ yahooAdAccount = <<>>
                  THEN EndRun(e)
                  ELSE [e EXCEPT !.pc = "refresh", !.app = yahooAdApplication,
                                 !.accounts = yahooAdAccount]
    /\ UNCHANGED <<yahooConversion, yahooAdApplication, issued, uploads>>
    /\ ExportFrame

InitSchedule ==
    /\ now = ExportTime
    /\ sessionRow = TheShop
    /\ apiKeyPair = {[kid |-> 1, createdAt |-> StartTime]}
    /\ pixelNonce = EmptyBag
    /\ yahooConversion \in {SetToBag(rows) : rows \in SUBSET ConversionPool}
    /\ sessionCache = Null
    /\ privateKeyCache = {}
    /\ allowOriginCache = NoOrigin
    /\ task = [p \in Procs |-> Idle]
    /\ served = 0
    /\ accepted = {}
    /\ pow = PowIdle
    /\ rot = RotIdle
    /\ advertised = 1
    /\ pushed = <<1>>
    /\ yahooAdApplication = [accessToken |-> 0, refreshToken |-> TRUE, configured |-> TRUE]
    /\ yahooAdAccount = <<Account("search", 1, "cv"), Account("display", 2, "cv")>>
    /\ exp = ExpIdle
    /\ issued = 0
    /\ uploads = <<>>
    /\ maint = MaintIdle
    /\ cookies = <<>>
    /\ send = SendIdle
    /\ count = CountIdle

NextSchedule ==
    \/ ExportOnSchedule
    \/ ExportRefresh("ok")
    \/ ExportQuery(0, FALSE)
    \/ \E outcome \in UploadOutcomes : ExportUpload(outcome)
    \/ ExportMark(FALSE)

SpecSchedule == InitSchedule /\ [][NextSchedule]_vars /\ WF_vars(NextSchedule)

(***************************************************************************)
(* The daily maintenance task of scheduler.ts: deleteExpiredRecords, then  *)
(* cleanUpPixelNonce.                                                      *)
(***************************************************************************)
\* the days of `90 * 24 * 60 * 60 * 1000` and of `1 * 24 * 60 * 60 * 1000`
RetentionDays == 90
NonceDays == 1

\* t < clock - days * MsPerDay, compared by whole days and remainders: the product of
\* 90 days in milliseconds is beyond the integers of the model checker
OlderThan(t, days, clock) ==
    LET d1 == t \div MsPerDay
        d2 == clock \div MsPerDay
    IN  d1 + days < d2 \/ (d1 + days = d2 /\ t % MsPerDay < clock % MsPerDay)

\* deleteMany({ where: { visitedAt: { lt: expiredAt } } }) on YahooConversion
DeleteExpired(table, clock) ==
    [r \in {x \in DOMAIN table : ~OlderThan(x.visitedAt, RetentionDays, clock)} |-> table[r]]

\* the same with a cut at the token's age of zero days
DeleteNonces_All(table, clock) ==
    [r \in {x \in DOMAIN table : ~OlderThan(x.receivedAt, 0, clock)} |-> table[r]]

\* deleteMany({ where: { receivedAt: { lt: expiredAt } } }) on PixelNonce
DeleteNonces(table, clock) ==
    [r \in {x \in DOMAIN table : ~OlderThan(x.receivedAt, NonceDays, clock)} |-> table[r]]

MaintenanceFrame ==
    UNCHANGED <<sessionRow, apiKeyPair, sessionCache, privateKeyCache, allowOriginCache,
                task, served, accepted, pow, RotationVars, ExportVars, ClientVars,
                CountVars>>

\* the task starts, a day after its previous start, and runs deleteExpiredRecords; an
\* error of the database is caught and logged
DeleteExpiredRecords(fault) ==
    /\ maint.pc = "idle"
    /\ maint.days < MaxDays
    /\ now' = now + MsPerDay
    /\ yahooConversion' = IF fault THEN yahooConversion
                          ELSE DeleteExpired(yahooConversion, now')
    /\ maint' = [pc |-> "cleanUp", days |-> maint.days + 1]
    /\ UNCHANGED pixelNonce
    /\ MaintenanceFrame

\* cleanUpPixelNonce, which ends the task
CleanUpPixelNonce(fault) ==
    /\ maint.pc = "cleanUp"
    /\ pixelNonce' = IF fault THEN pixelNonce ELSE DeleteNonces(pixelNonce, now)
    /\ maint' = [maint EXCEPT !.pc = "idle"]
    /\ UNCHANGED <<now, yahooConversion>>
    /\ MaintenanceFrame

(***************************************************************************)
(* The stores under all their writers: the gateway, the exporter and the   *)
(* maintenance task, here started one at a time, each when the others are  *)
(* at rest.                                                                *)
(***************************************************************************)
Quiet ==
    /\ \A q \in Procs : task[q].pc = "idle"
    /\ exp.pc \in {"idle", "done"}
    /\ maint.pc = "idle"

\* the payloads of two purchases: a search click and a display click
StorePayloads ==
    {[BasePayload EXCEPT !.yclid = Str(SearchYclid), !.orderId = Str(1), !.nonce = Str(1)],
     [BasePayload EXCEPT !.yclid = Str(DisplayYclid), !.orderId = Str(2), !.nonce = Str(2)]}

\* what the pixel posts at time t: a token of that minute, and one of the payloads
\* under the stored key or a body without a protected header
StoreRequests(t) ==
    [method : {"POST"}, pow : {Token(t \div MsPerMin, TRUE)},
     body : {Jwe("RSA-OAEP-256", 1, 1, pl) : pl \in StorePayloads} \cup {GarbageBody}]

InitStore ==
    /\ now = StartTime
    /\ sessionRow = TheShop
    /\ apiKeyPair = {[kid |-> 1, createdAt |-> StartTime]}
    /\ pixelNonce = EmptyBag
    /\ yahooConversion = EmptyBag
    /\ sessionCache = Null
    /\ privateKeyCache = {}
    /\ allowOriginCache = NoOrigin
    /\ task = [p \in Procs |-> Idle]
    /\ served = 0
    /\ accepted = {}
    /\ pow = PowIdle
    /\ rot = RotIdle
    /\ advertised = 1
    /\ pushed = <<1>>
    /\ yahooAdApplication = [accessToken |-> 0, refreshToken |-> TRUE, configured |-> TRUE]
    /\ yahooAdAccount = <<Account("search", 1, "cv"), Account("display", 2, "cv")>>
    /\ exp = ExpIdle
    /\ issued = 0
    /\ uploads = <<>>
    /\ maint = MaintIdle
    /\ cookies = <<>>
    /\ send = SendIdle
    /\ count = CountIdle

NextStore ==
    \/ \E p \in Procs, r \in StoreRequests(now) : Quiet /\ ReceiveAlone(p, r)
    \/ \E p \in Procs : Resolve(p)
    \/ \E p \in Procs : ImportKey(p)
    \/ \E p \in Procs, fault \in BOOLEAN : Dedup(p, fault)
    \/ \E p \in Procs, res \in LookupResults(now) : Lookup(p, res)
    \/ \E p \in Procs, res \in LookupResults(now) : Retry(p, res)
    \/ \E p \in Procs, fault \in BOOLEAN : Persist(p, fault)
    \/ \E p \in Procs : Respond(p)
    \/ \E fault \in BOOLEAN : Quiet /\ ExportBegin(fault)
    \/ \E outcome \in RefreshOutcomes : ExportRefresh(outcome)
    \/ \E fault \in BOOLEAN : ExportQuery(0, fault)
    \/ \E outcome \in UploadOutcomes : ExportUpload(outcome)
    \/ \E fault \in BOOLEAN : ExportMark(fault)
    \/ \E fault \in BOOLEAN : Quiet /\ DeleteExpiredRecords(fault)
    \/ \E fault \in BOOLEAN : CleanUpPixelNonce(fault)
    \/ Tick

SpecStore == InitStore /\ [][NextStore]_vars

(***************************************************************************)
(* The web pixel's checkout_completed callback: getLatestYclid and         *)
(* sendConversionData of index.ts.  Text is a sequence of characters.      *)
(***************************************************************************)
RECURSIVE Before(_, _)
\* the text before the first sep
Before(str, sep) ==
    IF str = <<>> \/ Head(str) = sep THEN <<>>
    ELSE <<Head(str)>> \o Before(Tail(str), sep)

RECURSIVE Split(_, _)
\* str.split(sep)
Split(str, sep) ==
    LET head == Before(str, sep)
    IN  IF Len(head) = Len(str) THEN <<head>>
        ELSE <<head>> \o Split(SubSeq(str, Len(head) + 2, Len(str)), sep)

RECURSIVE TrimStart(_)
TrimStart(str) == IF str # <<>> /\ Head(str) = " " THEN TrimStart(Tail(str)) ELSE str

RECURSIVE TrimEnd(_)
TrimEnd(str) ==
    IF str # <<>> /\ str[Len(str)] = " " THEN TrimEnd(SubSeq(str, 1, Len(str) - 1)) ELSE str

\* str.trim()
Trim(str) == TrimEnd(TrimStart(str))

\* the escape sequences of the model's cookies and the characters they stand for
Escapes == {<<"2", "E">>, <<"3", "D">>}
Unescape(hex) == IF hex = <<"2", "E">> THEN "." ELSE "="

RECURSIVE decodeURIComponent(_)
\* decodeURIComponent: a percent sign that no escape sequence follows makes it throw
decodeURIComponent(str) ==
    IF str = <<>> THEN [threw |-> FALSE, value |-> <<>>]
    ELSE IF Head(str) # "%" THEN
        LET rest == decodeURIComponent(Tail(str))
        IN  [rest EXCEPT !.value = IF rest.threw THEN <<>> ELSE <<Head(str)>> \o @]
    ELSE IF Len(str) < 3 \/ SubSeq(str, 2, 3) \notin Escapes THEN [threw |-> TRUE, value |-> <<>>]
    ELSE
        LET rest == decodeURIComponent(SubSeq(str, 4, Len(str)))
        IN  [rest EXCEPT !.value = IF rest.threw THEN <<>>
                                   ELSE <<Unescape(SubSeq(str, 2, 3))>> \o @]

DigitChars == {"0", "1", "2", "3", "4", "5", "6", "7", "8", "9"}
DigitValue(c) == CHOOSE d \in 0..9 : <<"0", "1", "2", "3", "4", "5", "6", "7", "8", "9">>[d + 1] = c

RECURSIVE Decimal(_, _)
Decimal(str, acc) ==
    IF str = <<>> THEN acc ELSE Decimal(Tail(str), acc * 10 + DigitValue(Head(str)))

\* Number(str) on the text of the model: decimal digits give their value, the empty
\* text 0, text with any other character NaN
ToNumber(str) ==
    IF \A i \in DOMAIN str : str[i] \in DigitChars THEN Num(Decimal(str, 0)) ELSE NaN

\* the digits of a name that matches /^_ycl_(\d+)_aw$/, or the empty text
NumPart(name) ==
    LET n == Len(name)
        mid == SubSeq(name, 6, n - 3)
    IN  IF /\ n >= 9
           /\ SubSeq(name, 1, 5) = <<"_", "y", "c", "l", "_">>
           /\ SubSeq(name, n - 2, n) = <<"_", "a", "w">>
           /\ \A i \in DOMAIN mid : mid[i] \in DigitChars
        THEN mid ELSE <<>>

\* lines 48 to 63, the callback of forEach on one pair: what it pushes onto pool.  An
\* exception thrown in the callback rejects its promise and pushes nothing.
Pushed(pair) ==
    LET parts == Split(Trim(pair), "=")
        rawName == parts[1]
        rawVal == IF Len(parts) > 1 THEN parts[2] ELSE <<>>
        decoded == decodeURIComponent(rawVal)
        seg == Split(decoded.value, ".")
    IN  IF rawVal = <<>> \/ decoded.threw THEN <<>>
        ELSE IF NumPart(rawName) # <<>> /\ seg[1] = <<"G", "C", "L">> /\ Len(seg) = 3 THEN
            <<[yclid |-> <<"Y", "S", "S", ".">> \o NumPart(rawName) \o <<".">> \o seg[3],
               ts |-> ToNumber(seg[2])]>>
        ELSE IF rawName = <<"_", "y", "c", "l", "_", "y", "j", "a", "d">> /\ seg[1] = <<"Y", "J", "A", "D">> /\ Len(seg) = 3 THEN
            <<[yclid |-> decoded.value, ts |-> ToNumber(seg[2])]>>
        ELSE <<>>

RECURSIVE Concat(_)
Concat(seqs) == IF seqs = <<>> THEN <<>> ELSE Head(seqs) \o Concat(Tail(seqs))

\* lines 46 to 63: pool after the forEach over cookies.split(';')
Pool(cookieText) ==
    LET pairs == Split(cookieText, ";")
    IN  Concat([i \in DOMAIN pairs |-> Pushed(pairs[i])])

\* (a, b) => b.ts - a.ts, as sort reads it: NaN counts as 0
Compare(a, b) == IF a.ts.nan \/ b.ts.nan THEN 0 ELSE b.ts.val - a.ts.val

\* the comparator orders pool consistently: being equal under it is transitive
Consistent(pool) ==
    \A i, j, k \in DOMAIN pool :
        Compare(pool[i], pool[j]) = 0 /\ Compare(pool[j], pool[k]) = 0
            => Compare(pool[i], pool[k]) = 0

\* line 65: what pool[0] can be after pool.sort: with a consistent comparator the sort
\* is stable, so it is the first of the entries that none goes before; with an
\* inconsistent one the order is implementation-defined
SortedFirst(pool) ==
    IF Consistent(pool) THEN
        {pool[i] : i \in {i \in DOMAIN pool :
            /\ \A j \in DOMAIN pool : Compare(pool[i], pool[j]) <= 0
            /\ \A j \in 1..(i - 1) : Compare(pool[i], pool[j]) # 0}}
    ELSE {pool[i] : i \in DOMAIN pool}

\* new Date(ts * 1000).toString()
DateString(ts) == IF ts.nan THEN [invalid |-> TRUE, ms |-> 0] ELSE [invalid |-> FALSE, ms |-> ts.val * 1000]

\* lines 45 to 71: the values getLatestYclid can return
getLatestYclid(cookieText) ==
    LET pool == Pool(cookieText)
    IN  IF pool = <<>> THEN {NoMarker}
        ELSE {[found |-> TRUE, yclid |-> first.yclid, ts |-> DateString(first.ts)] :
                first \in SortedFirst(pool)}

\* the pairs the cookie store is made of: markers of both formats, one of them with
\* escaped dots and one with a timestamp that is no number, and pairs that are no
\* marker by their name, their prefix, their segments, their escape or their lack of
\* a value
CookiePairs ==
    {<<"_", "y", "c", "l", "_", "1", "_", "a", "w", "=", "G", "C", "L", ".", "5", ".", "a">>,
     <<"_", "y", "c", "l", "_", "2", "3", "_", "a", "w", "=", "G", "C", "L", ".", "7", ".", "b">>,
     <<"_", "y", "c", "l", "_", "y", "j", "a", "d", "=", "Y", "J", "A", "D", ".", "6", ".", "c">>,
     <<"_", "y", "c", "l", "_", "y", "j", "a", "d", "=", "Y", "J", "A", "D", ".", "x", ".", "d">>,
     <<"_", "y", "c", "l", "_", "y", "j", "a", "d", "=", "Y", "J", "A", "D", "%", "2", "E", "9", "%", "2", "E", "e">>,
     <<"_", "y", "c", "l", "_", "x", "_", "a", "w", "=", "G", "C", "L", ".", "9", ".", "f">>,
     <<"_", "y", "c", "l", "_", "y", "j", "a", "d", "=", "G", "C", "L", ".", "8">>,
     <<"s", "i", "d", "=", "%">>,
     <<"_", "y", "c", "l", "_", "y", "j", "a", "d">>}

RECURSIVE Join(_)
\* the pairs as document.cookie lists them
Join(pairs) ==
    IF pairs = <<>> THEN <<>>
    ELSE IF Len(pairs) = 1 THEN pairs[1]
    ELSE pairs[1] \o <<";", " ">> \o Join(Tail(pairs))

\* the cookie stores of up to MaxCookies different pairs, in any order
CookieStores ==
    {Join(pairs) : pairs \in
        {q \in UNION {[1..n -> CookiePairs] : n \in 0..MaxCookies} :
            \A i, j \in DOMAIN q : i # j => q[i] # q[j]}}

\* every value getLatestYclid returns on a cookie store of the model
LatestYclids == UNION {getLatestYclid(cookieText) : cookieText \in CookieStores}

MAX_RETRIES == 3
RetryWaitMs == 500

ClientFrame ==
    UNCHANGED <<now, sessionRow, apiKeyPair, pixelNonce, yahooConversion, sessionCache,
                privateKeyCache, allowOriginCache, task, served, accepted, pow, RotationVars,
                ExportVars, MaintenanceVars, cookies, CountVars>>

\* `!savedYclid` holds whatever getLatestYclid returned
NothingSaved_Never(savedYclid) == FALSE

\* `!savedYclid`
NothingSaved(savedYclid) == ~savedYclid.found

\* lines 19 and 115 to 116: the event arrives, the cookies are read, and the callback
\* returns if there is no marker
CheckoutCompleted(savedYclid) ==
    /\ send.pc = "idle"
    /\ savedYclid \in getLatestYclid(cookies)
    /\ send' = IF NothingSaved(savedYclid) THEN [send EXCEPT !.pc = "done"]
               ELSE [send EXCEPT !.pc = "encrypt", !.savedYclid = savedYclid]
    /\ ClientFrame

\* lines 145 to 164: the payload, importJWK and CompactEncrypt, then makePow; what
\* JSON.parse, importJWK or encrypt throws leaves sendConversionData and is caught and
\* logged at line 190
Encrypt(threw) ==
    /\ send.pc = "encrypt"
    /\ send' = IF threw THEN [send EXCEPT !.pc = "done", !.result = "logged"]
               ELSE [send EXCEPT !.pc = "fetch", !.encs = @ + 1, !.pows = @ + 1]
    /\ ClientFrame

\* a retry that is allowed once more than line 177 allows
MayRetry_OnceMore(retryCount) == retryCount < MAX_RETRIES

\* line 177: retryCount < MAX_RETRIES - 1
MayRetry(retryCount) == retryCount < MAX_RETRIES - 1

\* what the fetch of line 167 comes to: an OK response, another response, no response
FetchOutcomes == {"ok", "notOk", "threw"}

\* lines 166 to 182: the POST; true on an OK response, else another attempt after a
\* wait if retryCount < MAX_RETRIES - 1, else false
Fetch(outcome) ==
    /\ send.pc = "fetch"
    /\ send' = IF outcome = "ok" THEN
                    [send EXCEPT !.pc = "done", !.posts = @ + 1, !.last = "ok",
                                 !.result = "true"]
               ELSE IF MayRetry(send.retryCount) THEN
                    [send EXCEPT !.pc = "wait", !.posts = @ + 1, !.last = "failed"]
               ELSE [send EXCEPT !.pc = "done", !.posts = @ + 1, !.last = "failed",
                                 !.result = "false"]
    /\ ClientFrame

\* lines 178 to 179: the timer of 500 ms, then sendConversionData(retryCount + 1)
Wait ==
    /\ send.pc = "wait"
    /\ send' = [send EXCEPT !.pc = "encrypt", !.waited = @ + RetryWaitMs,
                            !.retryCount = @ + 1]
    /\ ClientFrame

InitClient ==
    /\ now = StartTime
    /\ sessionRow = TheShop
    /\ apiKeyPair = {[kid |-> 1, createdAt |-> StartTime]}
    /\ pixelNonce = EmptyBag
    /\ yahooConversion = EmptyBag
    /\ sessionCache = Null
    /\ privateKeyCache = {}
    /\ allowOriginCache = NoOrigin
    /\ task = [p \in Procs |-> Idle]
    /\ served = 0
    /\ accepted = {}
    /\ pow = PowIdle
    /\ rot = RotIdle
    /\ advertised = 1
    /\ pushed = <<1>>
    /\ yahooAdApplication = NoApp
    /\ yahooAdAccount = <<>>
    /\ exp = ExpIdle
    /\ issued = 0
    /\ uploads = <<>>
    /\ maint = MaintIdle
    /\ cookies \in CookieStores
    /\ send = SendIdle
    /\ count = CountIdle

NextClient ==
    \/ \E savedYclid \in LatestYclids : CheckoutCompleted(savedYclid)
    \/ \E threw \in BOOLEAN : Encrypt(threw)
    \/ \E outcome \in FetchOutcomes : Fetch(outcome)
    \/ Wait

\* the event may never come; once it has, every await of the callback settles
SpecClient ==
    /\ InitClient
    /\ [][NextClient]_vars
    /\ WF_vars(\E threw \in BOOLEAN : Encrypt(threw))
    /\ WF_vars(\E outcome \in FetchOutcomes : Fetch(outcome))
    /\ WF_vars(Wait)

(***************************************************************************)
(* The key store under the gateway and the rotation: concurrent deliveries *)
(* tagged with either kid, and rotations whose calls all succeed.          *)
(***************************************************************************)
\* what the pixel posts at time t under the jwk of kid: a token of that minute and the
\* base payload encrypted for kid
KeyRequests(t) ==
    [method : {"POST"}, pow : {Token(t \div MsPerMin, TRUE)},
     body : {Jwe("RSA-OAEP-256", kid, kid, BasePayload) : kid \in Kids}]

InitKeys == Init /\ sessionRow = TheShop

NextKeys ==
    \/ \E p \in Procs, r \in KeyRequests(now) : Receive(p, r)
    \/ \E p \in Procs : Resolve(p)
    \/ \E p \in Procs : ImportKey(p)
    \/ \E p \in Procs, fault \in BOOLEAN : Dedup(p, fault)
    \/ \E p \in Procs, res \in LookupResults(now) : Lookup(p, res)
    \/ \E p \in Procs, res \in LookupResults(now) : Retry(p, res)
    \/ \E p \in Procs, fault \in BOOLEAN : Persist(p, fault)
    \/ \E p \in Procs : Respond(p)
    \/ RotateCreate(FALSE)
    \/ RotateFindMany(FALSE)
    \/ RotateDeleteMany(FALSE)
    \/ RotatePush("ok")

SpecKeys == InitKeys /\ [][NextKeys]_vars

(***************************************************************************)
(* The gateway over the life of a session-cache entry: deliveries one      *)
(* after the other, the shop/update webhook, and the clock running past    *)
(* the five minutes of the entry.                                          *)
(***************************************************************************)
\* the origin of the shop once it has a primary domain of its own
CustomDomain == "shop.example.com"

\* webhooks.shop.update: the primary domain of the stored session is replaced
ShopUpdate ==
    /\ sessionRow = TheShop
    /\ sessionRow' = CustomDomain
    /\ UNCHANGED <<now, apiKeyPair, pixelNonce, yahooConversion, sessionCache,
                   privateKeyCache, allowOriginCache, task, served, accepted, pow,
                   RotationVars, ExportVars, MaintenanceVars, ClientVars,
                CountVars>>

\* a minute passes, up to MaxMinutes after the start
Minute ==
    /\ now < StartTime + MaxMinutes * MsPerMin
    /\ now' = now + MsPerMin
    /\ UNCHANGED <<sessionRow, apiKeyPair, pixelNonce, yahooConversion, sessionCache,
                   privateKeyCache, allowOriginCache, task, served, accepted, pow,
                   RotationVars, ExportVars, MaintenanceVars, ClientVars,
                CountVars>>

NextSession ==
    \/ \E p \in Procs, r \in KeyRequests(now) : ReceiveAlone(p, r)
    \/ \E p \in Procs : Resolve(p)
    \/ \E p \in Procs : ImportKey(p)
    \/ \E p \in Procs, fault \in BOOLEAN : Dedup(p, fault)
    \/ \E p \in Procs, res \in LookupResults(now) : Lookup(p, res)
    \/ \E p \in Procs, res \in LookupResults(now) : Retry(p, res)
    \/ \E p \in Procs, fault \in BOOLEAN : Persist(p, fault)
    \/ \E p \in Procs : Respond(p)
    \/ ShopUpdate
    \/ Minute

SpecSession == Init /\ [][NextSession]_vars

(***************************************************************************)
(* Redelivery: the pixel posts again after the gateway has answered.  The  *)
(* invocations do not overlap; the answer of the last one stays in view    *)
(* while the next one runs.                                                *)
(***************************************************************************)
\* what the pixel posts at time t: a token of that minute and a well-typed payload
\* under the stored key
RedeliverRequests(t) ==
    [method : {"POST"}, pow : {Token(t \div MsPerMin, TRUE)},
     body : {Jwe("RSA-OAEP-256", 1, 1, pl) : pl \in WellTyped}]

\* an invocation that arrives when every earlier one has returned
ReceiveAfter(p, r) == (\A q \in Procs : task[q].pc \in {"idle", "done"}) /\ Receive(p, r)

NextRedeliver ==
    \/ \E p \in Procs, r \in RedeliverRequests(now) : ReceiveAfter(p, r)
    \/ \E p \in Procs : Resolve(p)
    \/ \E p \in Procs : ImportKey(p)
    \/ \E p \in Procs, fault \in BOOLEAN : Dedup(p, fault)
    \/ \E p \in Procs, res \in LookupResults(now) : Lookup(p, res)
    \/ \E p \in Procs, res \in LookupResults(now) : Retry(p, res)
    \/ \E p \in Procs, fault \in BOOLEAN : Persist(p, fault)
    \/ \E p \in Procs : Respond(p)

SpecRedeliver == InitKeys /\ [][NextRedeliver]_vars

(***************************************************************************)
(* One token for every request: deliveries of different payloads that all  *)
(* carry the token made for the first minute, while the clock runs past    *)
(* the token's window.                                                     *)
(***************************************************************************)
\* the token of the minute at which the clock starts
OneToken == Token(StartMin, TRUE)

\* the payloads of two purchases, each under the stored key and with the one token
ReplayRequests ==
    [method : {"POST"}, pow : {OneToken},
     body : {Jwe("RSA-OAEP-256", 1, 1, pl) : pl \in StorePayloads}]

NextReplay ==
    \/ \E p \in Procs, r \in ReplayRequests : ReceiveAfter(p, r)
    \/ \E p \in Procs : Resolve(p)
    \/ \E p \in Procs : ImportKey(p)
    \/ \E p \in Procs, fault \in BOOLEAN : Dedup(p, fault)
    \/ \E p \in Procs, res \in LookupResults(now) : Lookup(p, res)
    \/ \E p \in Procs, res \in LookupResults(now) : Retry(p, res)
    \/ \E p \in Procs, fault \in BOOLEAN : Persist(p, fault)
    \/ \E p \in Procs : Respond(p)
    \/ (\A q \in Procs : task[q].pc \in {"idle", "done"}) /\ Minute

SpecReplay == InitKeys /\ [][NextReplay]_vars

(***************************************************************************)
(* The difficulty count on its own: a digest of DigestLen bytes, counted   *)
(* by the server's loop and by the client's loop.                          *)
(***************************************************************************)
\* bytes with every number of leading zero bits from 0 to 8, two of each but for 0
Bytes == {0, 1, 2, 3, 4, 7, 8, 15, 16, 31, 32, 63, 64, 127, 128, 255}

Digests == [1..DigestLen -> Bytes]

CountFrame ==
    UNCHANGED <<now, sessionRow, apiKeyPair, pixelNonce, yahooConversion, sessionCache,
                privateKeyCache, allowOriginCache, task, served, accepted, pow, RotationVars,
                ExportVars, MaintenanceVars, ClientVars>>

\* checkPow's loop over the digest
ServerCount ==
    /\ count.pc = "idle"
    /\ count' = [count EXCEPT !.pc = "server", !.server = ServerZeros(count.hash, 0)]
    /\ CountFrame

\* makePow's loop over the same digest
ClientCount ==
    /\ count.pc = "server"
    /\ count' = [count EXCEPT !.pc = "both", !.client = ClientZeros(count.hash, 0)]
    /\ CountFrame

InitCount ==
    /\ now = StartTime
    /\ sessionRow = TheShop
    /\ apiKeyPair = {[kid |-> 1, createdAt |-> StartTime]}
    /\ pixelNonce = EmptyBag
    /\ yahooConversion = EmptyBag
    /\ sessionCache = Null
    /\ privateKeyCache = {}
    /\ allowOriginCache = NoOrigin
    /\ task = [p \in Procs |-> Idle]
    /\ served = 0
    /\ accepted = {}
    /\ pow = PowIdle
    /\ rot = RotIdle
    /\ advertised = 1
    /\ pushed = <<1>>
    /\ yahooAdApplication = NoApp
    /\ yahooAdAccount = <<>>
    /\ exp = ExpIdle
    /\ issued = 0
    /\ uploads = <<>>
    /\ maint = MaintIdle
    /\ cookies = <<>>
    /\ send = SendIdle
    /\ count \in {[CountIdle EXCEPT !.hash = h] : h \in Digests}

NextCount == ServerCount \/ ClientCount

SpecCount == InitCount /\ [][NextCount]_vars

TypeOK ==
    /\ task \in [Procs -> [pc : {"idle", "resolve", "import", "dedup", "lookup", "retry", "persist", "done"},
                           body : Bodies, session : {NoSession, TheShop},
                           gqlRes : UNION {LookupResults(StartTime + k * MsPerMin) : k \in 0..MaxTicks} \cup {NotAsked},
                           fault : BOOLEAN,
                           resp : [status : {0, 200, 204, 405, 500}, result : STRING, error_code : Int]]]
    /\ served \in 0..MaxRequests
    /\ accepted \subseteq OrderIds

(***************************************************************************)
(* Properties.                                                             *)
(***************************************************************************)
\* the invocation of p has got past step 5: the gateway knows its payload
Known(p) == task[p].pc \in {"dedup", "lookup", "retry", "persist"} \/ task[p].body # EmptyBody
NonceOf(p) == task[p].body.plaintext.nonce.v
OrderOf(p) == task[p].body.plaintext.orderId.v
YclidOf(p) == task[p].body.plaintext.yclid.v

\* C1: in every reachable state, whatever the interleaving of the invocations, the
\* YahooConversion table holds at most one row for each order identifier.
C1_OneRecordPerOrder ==
    \A r1 \in Rows(yahooConversion) :
        /\ CopiesIn(r1, yahooConversion) = 1
        /\ \A r2 \in Rows(yahooConversion) : r1.orderId = r2.orderId => r1 = r2

\* the invocations that have all returned, on identical payloads, none of them hit by a
\* storage error or by an order that is missing, stale or not looked up
IdenticalAndDone ==
    /\ served = NumProcs
    /\ \A p \in Procs :
        /\ task[p].pc = "done"
        /\ Known(p)
        /\ ~task[p].fault
        /\ task[p].resp \notin {errorResponse(9), errorResponse(10), errorResponse(11)}
        /\ \A q \in Procs : task[q].body = task[p].body

\* C2: when as many identical valid submissions as there are processes are handled
\* concurrently on a fresh gateway, exactly one of them is answered 200 success and every
\* other one is rejected as a duplicate.
C2_ExactlyOneSucceeds ==
    IdenticalAndDone =>
        \E p \in Procs :
            /\ task[p].resp = Success
            /\ \A q \in Procs \ {p} : task[q].resp = errorResponse(8)

C2_Witness ==
    /\ IdenticalAndDone
    /\ \E p, q \in Procs : task[p].resp = Success /\ task[q].resp = errorResponse(8)

\* C3: the PixelNonce table never holds two rows for one nonce, and an invocation that
\* reaches step 6 with a nonce that is already recorded is rejected with error_code 8,
\* whatever its order identifier, adding no row to either table.
C3_NonceOnce ==
    [][/\ \A r1 \in BagToSet(pixelNonce') :
            /\ CopiesIn(r1, pixelNonce') = 1
            /\ \A r2 \in BagToSet(pixelNonce') : r1.nonce = r2.nonce => r1 = r2
       /\ \A p \in Procs :
            (/\ task[p].pc = "dedup"
             /\ \E r \in BagToSet(pixelNonce) : r.nonce = NonceOf(p)
             /\ Dedup(p, FALSE))
            => /\ task'[p].pc = "done"
               /\ task'[p].resp = errorResponse(8)
               /\ yahooConversion' = yahooConversion
               /\ pixelNonce' = pixelNonce]_vars

\* a nonce recorded by an invocation still in flight has been refused to another
\* invocation that carries a different order identifier
C3_Witness ==
    \E p, q \in Procs :
        /\ task[p].pc = "done" /\ task[p].resp = errorResponse(8) /\ Known(p)
        /\ task[q].pc \in {"lookup", "retry", "persist"}
        /\ NonceOf(q) = NonceOf(p)
        /\ OrderOf(q) # OrderOf(p)
        /\ \E r \in BagToSet(pixelNonce) : r.nonce = NonceOf(p)
        /\ ~\E r \in BagToSet(yahooConversion) : r.orderId = OrderOf(p)

\* C4: once an order identifier has been answered 200, every later invocation that
\* reaches step 6 with that order identifier, with a recorded or a fresh nonce, is
\* rejected with error_code 8 and leaves the YahooConversion table as it was.
C4_AcceptedOrderIsDuplicate ==
    [][\A p \in Procs :
        (/\ task[p].pc = "dedup"
         /\ OrderOf(p) \in accepted
         /\ Dedup(p, FALSE))
        => /\ task'[p].pc = "done"
           /\ task'[p].resp = errorResponse(8)
           /\ yahooConversion' = yahooConversion]_vars

\* an invocation with a nonce of its own has been refused for its accepted order
C4_Witness ==
    \E p \in Procs :
        /\ task[p].pc = "done" /\ task[p].resp = errorResponse(8) /\ Known(p)
        /\ OrderOf(p) \in accepted
        /\ \E r \in BagToSet(pixelNonce) : r.nonce = NonceOf(p)
        /\ \E r \in BagToSet(pixelNonce) : r.nonce # NonceOf(p)
        /\ Cardinality(BagToSet(yahooConversion)) = 1

\* the order system's answer is an order created no more than two minutes before now
ReportsFresh(res) == res.kind = "order" /\ (now - res.createdAt) <= 2 * MsPerMin
ReportsStale(res) == res.kind = "order" /\ (now - res.createdAt) > 2 * MsPerMin

\* the row of a payload as the claim describes it: the payload's fields, not processed
RowOfPayload(pl) ==
    [yclid |-> pl.yclid.v, amount |-> pl.amount.v, visitedAt |-> pl.visitedAt.v,
     conversionedAt |-> pl.conversionedAt.v, isProcessed |-> FALSE, orderId |-> pl.orderId.v]

\* C5: an invocation that has passed steps 1 to 6 (valid token, body under a stored key,
\* well-typed payload, nonce and order identifier unused) and whose order the order
\* system reports as created within the last two minutes goes on to step 8, is answered
\* 200 success and leaves exactly one new row, with the payload's yclid, amount and
\* orderId and with isProcessed false.
C5_ValidRequestIsStored ==
    [][\A p \in Procs :
        /\ \A res \in LookupResults(now) :
            (ReportsFresh(res) /\ (Lookup(p, res) \/ Retry(p, res)))
            => task'[p].pc = "persist"
        /\ Persist(p, FALSE)
            => /\ task'[p].resp = Success
               /\ yahooConversion' =
                    yahooConversion (+) SetToBag({RowOfPayload(task[p].body.plaintext)})]_vars

\* C6: when the first lookup reported no order and the retry reports the order with a
\* creation time within the two minutes, the invocation is not rejected at step 7: it
\* goes on to step 8.
C6_RetryFindsOrder ==
    [][\A p \in Procs : \A res \in LookupResults(now) :
        (task[p].gqlRes = Absent /\ ReportsFresh(res) /\ Retry(p, res))
        => (task'[p].pc = "persist" /\ task'[p].resp = NoResponse)]_vars

\* C7: a row is only ever created by an invocation to which the order system has
\* reported an order, and an invocation whose order is reported absent by the lookup and
\* by the retry is rejected with error_code 9, one whose order is reported with a
\* creation time more than two minutes back with error_code 10.
C7_NoRecordForAbsentOrStale ==
    [][\A p \in Procs :
        /\ (task[p].pc = "persist" /\ yahooConversion' # yahooConversion /\ task'[p].pc = "done")
            => task[p].gqlRes.kind = "order"
        /\ \A res \in LookupResults(now) :
            /\ (res = Absent /\ Retry(p, res)) => task'[p].resp = errorResponse(9)
            /\ (ReportsStale(res) /\ (Lookup(p, res) \/ Retry(p, res)))
                => task'[p].resp = errorResponse(10)]_vars

Min(S) == CHOOSE x \in S : \A y \in S : x <= y

\* the numbered checks that request r fails on arrival
FailsOnArrival(r) ==
    {c \in 1..4 :
        \/ c = 1 /\ r.method # "POST"
        \/ c = 2 /\ ~checkPow(r.pow, now)
        \/ c = 3 /\ r.body.kind = "empty"
        \/ c = 4 /\ r.body.kind = "jwe" /\ r.body.alg # "RSA-OAEP-256"}

\* the numbered checks that the invocation of p fails at steps 4 and 5
FailsOnResolve(p) ==
    LET session == IF task[p].pc = "resolve" THEN getSession ELSE task[p].session
        body == task[p].body
    IN  {c \in 5..7 :
            \/ c = 5 /\ session = NoSession
            \/ c = 6 /\ body.kid \notin privateKeyCache /\ ~KeyStored(body.kid)
            \/ c = 7 /\ body.encKid = body.kid /\ body.plaintext # NotJson
                     /\ ~ShapeOk(body.plaintext)}

\* C10: the invocation ends at the first check that fails, with the error_code of that
\* check: method 1, proof of work 2, empty body 3, algorithm 4, session 5, private key 6,
\* payload shape 7, duplicate 8, order absent 9, order stale 10, order lookup failure 11,
\* persistence failure 12; and it is answered 11 only when a lookup has failed.
C10_FirstFailingCheck ==
    [][\A p \in Procs :
        /\ \A r \in Requests :
            (Receive(p, r) /\ FailsOnArrival(r) # {})
            => task'[p].resp = errorResponse(Min(FailsOnArrival(r)))
        /\ ((Resolve(p) \/ ImportKey(p)) /\ task'[p].pc # "import" /\ FailsOnResolve(p) # {})
            => task'[p].resp = errorResponse(Min(FailsOnResolve(p)))
        /\ (Dedup(p, FALSE) /\ (NonceTaken(NonceOf(p)) \/ FindFirst(OrderOf(p))))
            => task'[p].resp = errorResponse(8)
        /\ \A res \in LookupResults(now) :
            /\ (Lookup(p, res) /\ res = Threw) => task'[p].resp = errorResponse(11)
            /\ (Lookup(p, res) /\ ReportsStale(res)) => task'[p].resp = errorResponse(10)
            /\ (Retry(p, res) /\ res = Absent) => task'[p].resp = errorResponse(9)
            /\ (Retry(p, res) /\ res # Threw) => task'[p].resp # errorResponse(11)
        /\ Persist(p, TRUE) => task'[p].resp = errorResponse(12)]_vars

\* the age of the token at its arrival, by the server's clock
TokenAge == pow.sentAt - pow.unixMin * MsPerMin

C9_MadeTokenIsAccepted ==
    (pow.pc = "sent" /\ pow.honest /\ Abs(TokenAge) <= 2 * MsPerMin)
    => /\ task[pow.proc].pc # "idle"
       /\ task[pow.proc].resp # errorResponse(2)

\* a made token arrived within the window, after a loop of more than one pass, and the
\* gateway went on to resolve session and key
C9_Witness ==
    /\ pow.pc = "sent"
    /\ pow.honest
    /\ pow.counter > 0
    /\ Abs(TokenAge) <= 2 * MsPerMin
    /\ task[pow.proc].pc = "resolve"

\* the responses the interface lists: success, preflight, a numbered rejection, 500
ListedResponses ==
    {Success, Preflight, InternalServerError} \cup {errorResponse(code) : code \in 1..12}

\* C11: every response of the endpoint, from loader or action, is 200 success, 204,
\* 405 with an error_code from 1 to 12, or 500.
C11_ListedResponsesOnly ==
    \A p \in Procs : task[p].pc = "done" => task[p].resp \in ListedResponses

\* the rows of the KeyPair store that are among the three most recently created
ThreeMostRecent(rows) ==
    {r \in rows : Cardinality({q \in rows : q.createdAt > r.createdAt}) < 3}

\* C12: when an invocation of generatePublicKey has completed, with true or with false,
\* the ApiKeyPair table holds at most 3 rows, and the rows its purge removed are exactly
\* those that were not among the 3 most recently created.
C12_AtMostThreeKeys ==
    [][/\ rot'.pc = "done" => Cardinality(apiKeyPair') <= 3
       /\ RotateDeleteMany(FALSE)
            => apiKeyPair \ apiKeyPair' = apiKeyPair \ ThreeMostRecent(apiKeyPair)]_vars

\* getPrivateKey(kid) returns a key: from its cache or from the row of the table
Resolvable(kid) == kid \in privateKeyCache \/ KeyStored(kid)

\* the kids of the last two rotations that put their key into the pixel's settings
LastTwoPushed == {pushed[i] : i \in {j \in 1..Len(pushed) : j > Len(pushed) - 2}}

\* C13: between invocations of generatePublicKey, the keys of the two most recent
\* rotations are resolvable by getPrivateKey, so that a message tagged with either kid
\* is not rejected with error_code 6.
C13_LastTwoKeysResolvable ==
    rot.pc \in {"idle", "done"} => \A kid \in LastTwoPushed : Resolvable(kid)

\* C14: when the push of the new public key has failed, generatePublicKey has returned
\* false and the row it created is no longer in the ApiKeyPair table.
C14_FailedPushRolledBack ==
    (rot.pc = "done" /\ rot.pushFailed) => (rot.returned = "false" /\ ~KeyStored(rot.kid))

\* C15: when an invocation of generatePublicKey has completed, the key in the web
\* pixel's settings is the most recently created row of the ApiKeyPair table.
C15_AdvertisedIsNewest ==
    rot.pc = "done"
    => \E r \in apiKeyPair :
            r.kid = advertised /\ \A q \in apiKeyPair : q.createdAt <= r.createdAt

\* the claim's batch of an account at time t: unprocessed, of the account's network,
\* visited inside the window of `duration` days that ends at t, converted within the
\* hour that ends at t
Eligible(r, account, t) ==
    /\ ~r.isProcessed
    /\ StartsWith(r.yclid, IF account.type = "search" THEN <<"Y", "S", "S">>
                           ELSE <<"Y", "J", "A", "D">>)
    /\ t - account.duration * MsPerDay <= r.visitedAt /\ r.visitedAt < t
    /\ t - MsPerHour <= r.conversionedAt /\ r.conversionedAt < t

\* table `after` is table `before` with exactly the rows of `batch` marked processed
OnlyBatchMarked(before, after, batch) ==
    /\ BagCardinality(after) = BagCardinality(before)
    /\ \A r \in Rows(before) :
            IF r \in batch THEN [r EXCEPT !.isProcessed = TRUE] \in Rows(after)
            ELSE r \in Rows(after)

\* C16: for each complete account the batch that is read and uploaded is exactly the
\* unprocessed rows of the account's network inside its window and converted within
\* the last hour, and after an upload that succeeded the bulk update marks exactly those
\* rows and leaves every other row as it was.
C16_BatchIsEligibleRows ==
    [][/\ \A delay \in Delays :
            (ExportQuery(delay, FALSE) /\ Complete(exp.accounts[exp.i]))
            => LET batch == {r \in Rows(yahooConversion) :
                                Eligible(r, exp.accounts[exp.i], now')}
               IN  /\ exp'.records = batch
                   /\ batch # {} => exp'.pc = "upload"
       /\ \A outcome \in UploadOutcomes :
            ExportUpload(outcome)
            => uploads'[Len(uploads')].yclids = {r.yclid : r \in exp.records}
       /\ (exp.outcome = "ok" /\ ExportMark(FALSE))
            => OnlyBatchMarked(yahooConversion, yahooConversion', exp.records)]_vars

\* a run is over in which the search account with the window of one day uploaded the row
\* visited an hour ago without the row visited a day and a minute ago, and only the
\* former is processed
C16_Witness ==
    /\ exp.pc = "done"
    /\ \E k \in 1..Len(uploads) :
        /\ uploads[k].account = 1
        /\ uploads[k].yclids = {<<"Y", "S", "S", ".", "1">>}
    /\ \E r \in Rows(yahooConversion) : r.yclid = <<"Y", "S", "S", ".", "1">> /\ r.isProcessed
    /\ \E r \in Rows(yahooConversion) :
            r.yclid = <<"Y", "S", "S", ".", "1", "2">> /\ ~r.isProcessed

\* C17: while the upload of the pass has failed in transport, with a status that is not
\* OK, or with an OK response that reports errors, no processed flag is set.
C17_FailedUploadMarksNothing ==
    [][exp.outcome \in {"threw", "notOk", "rowErrors"}
       => yahooConversion' = yahooConversion]_vars

\* the yclids of the batch uploaded last
LastBatch == uploads[Len(uploads)].yclids

\* C18: of the batch uploaded last either every row is processed or none is: no state
\* has only part of a batch marked.
C18_AllOrNothing ==
    uploads # <<>>
    => \/ \A r \in Rows(yahooConversion) : r.yclid \in LastBatch => r.isProcessed
       \/ \A r \in Rows(yahooConversion) : r.yclid \in LastBatch => ~r.isProcessed

\* a batch of two rows has been uploaded and both are processed
C18_Witness ==
    /\ uploads # <<>>
    /\ Cardinality(LastBatch) >= 2
    /\ \A r \in Rows(yahooConversion) : r.yclid \in LastBatch => r.isProcessed
    /\ exp.pc \in {"query", "done"}

\* C19: a run that got past the token refresh and is over has queried the records of
\* every complete account, whatever failed while it handled one of them.
C19_EveryAccountVisited ==
    (exp.pc = "done" /\ exp.refreshed)
    => \A i \in 1..Len(exp.accounts) : Complete(exp.accounts[i]) => i \in exp.visited

\* C20: every upload request of the run carries the access token that the refresh at
\* the start of the run returned.
C20_UploadUsesRefreshedToken ==
    \A k \in 1..Len(uploads) :
        uploads[k].run = exp.run => uploads[k].token = exp.accessToken

\* the row of table that has the primary key of r
SameRecord(r, table) == {x \in Rows(table) : x.yclid = r.yclid}

\* C21: a row of YahooConversion is created with isProcessed false; over the steps of
\* the gateway, the exporter and the maintenance task the flag of a row only ever goes
\* from false to true, hence at most once, and only in the exporter's bulk update.
C21_ProcessedFlagMonotone ==
    [][\A r \in Rows(yahooConversion') :
            /\ SameRecord(r, yahooConversion) = {} => ~r.isProcessed
            /\ \A old \in SameRecord(r, yahooConversion) :
                    /\ old.isProcessed => r.isProcessed
                    /\ old.isProcessed # r.isProcessed
                            => exp.pc = "mark" /\ exp'.pc # "mark" /\ r.yclid \in
                                    {x.yclid : x \in exp.records}]_vars

\* a row the gateway stored has been uploaded and marked, and the maintenance task has
\* run since
C21_Witness ==
    /\ maint = [pc |-> "idle", days |-> 1]
    /\ \E r \in Rows(yahooConversion) : r.isProcessed /\ r.orderId \in accepted
    /\ \E r \in Rows(yahooConversion) : ~r.isProcessed

\* C26: a row leaves PixelNonce only in the maintenance task's cleanUpPixelNonce, and
\* only if it was received more than 24 hours before: no step of the gateway removes a
\* row, and the clean-up keeps every row received within the last 24 hours.
C26_TokensLeaveOnlyWhenOld ==
    [][\A r \in Rows(pixelNonce) :
            CopiesIn(r, pixelNonce') < CopiesIn(r, pixelNonce)
                => /\ maint.pc = "cleanUp" /\ maint'.pc = "idle"
                   /\ \A p \in Procs : task'[p] = task[p]
                   /\ r.receivedAt < now - 24 * MsPerHour]_vars

\* both deliveries were accepted, a minute apart; the clean-up has removed the token of
\* the first, then more than a day old, and kept that of the second, a day old
C26_Witness ==
    /\ maint = [pc |-> "idle", days |-> 1]
    /\ accepted = {1, 2}
    /\ \E r \in Rows(pixelNonce) : r.nonce = 2 /\ r.receivedAt = now - 24 * MsPerHour
    /\ \A r \in Rows(pixelNonce) : r.nonce = 2

\* the yclids of the rows the table may hold
PoolYclids == {r.yclid : r \in ConversionPool}

\* the upload of run k that carried y has just failed
FailedIn(y, k) ==
    /\ exp.run = k
    /\ exp.outcome \in {"threw", "notOk"}
    /\ uploads # <<>>
    /\ uploads[Len(uploads)].run = k
    /\ y \in LastBatch

UploadedIn(y, k) == \E j \in DOMAIN uploads : uploads[j].run = k /\ y \in uploads[j].yclids

Processed(y) == \E r \in Rows(yahooConversion) : r.yclid = y /\ r.isProcessed

\* an upload of a run after run k has just failed
FailedAfter(k) == exp.run > k /\ exp.outcome \in {"threw", "notOk"}

\* C22: a row whose batch failed to upload in a scheduled run that is not the last is
\* in a batch of the next scheduled run; and unless an upload of a later run fails
\* again, the row is eventually marked processed.
C22_FailedBatchIsRetried ==
    \A y \in PoolYclids, k \in 1..(MaxRuns - 1) :
        /\ FailedIn(y, k) ~> UploadedIn(y, k + 1)
        /\ FailedIn(y, k) ~> (Processed(y) \/ FailedAfter(k))

C24_NoMarkerNoRequest ==
    Pool(cookies) = <<>>
        => /\ send.pc \in {"idle", "done"}
           /\ send.encs = 0 /\ send.pows = 0 /\ send.posts = 0

\* the callback has returned on a cookie store of pairs that are no marker
C24_Witness ==
    /\ send.pc = "done"
    /\ Pool(cookies) = <<>>
    /\ Len(Split(cookies, ";")) > 1

\* C25: when the cookie store holds markers, getLatestYclid returns one of them, and
\* the timestamp of that one is a number not below the timestamp of any marker.
C25_LatestIsMaximum ==
    LET pool == Pool(cookies)
    IN  send.pc \notin {"idle"} /\ pool # <<>>
            => \E i \in DOMAIN pool :
                    /\ send.savedYclid = [found |-> TRUE, yclid |-> pool[i].yclid,
                                          ts |-> DateString(pool[i].ts)]
                    /\ \A j \in DOMAIN pool :
                            ~pool[j].ts.nan
                                => ~pool[i].ts.nan /\ pool[i].ts.val >= pool[j].ts.val

\* C27: an OPTIONS request to the loader is answered 204 in the step that receives
\* it, with no payload decrypted and no order looked up, and the step leaves PixelNonce,
\* YahooConversion and the session and key caches as they were.
C27_PreflightIsAnswered ==
    /\ [][\A p \in Procs :
            Loader(p, "OPTIONS")
                => /\ task'[p] = Reject(Preflight)
                   /\ pixelNonce' = pixelNonce /\ yahooConversion' = yahooConversion
                   /\ sessionCache' = sessionCache /\ privateKeyCache' = privateKeyCache]_vars
    /\ [](\A p \in Procs :
            task[p].resp.status = 204
                => task[p].pc = "done" /\ task[p].body = EmptyBody /\ task[p].gqlRes = NotAsked)

\* a preflight has been answered on a gateway that holds a conversion
C27_Witness ==
    /\ \E p \in Procs : task[p].resp = Preflight
    /\ yahooConversion # EmptyBag

\* C28: when db.yahooConversion.create fails, the step that tried it ends the
\* invocation with 405 and error_code 12 and leaves YahooConversion as it was: there is
\* no second attempt, and no row for the order of the request.
C28_FailedPersistAnswers12 ==
    /\ [][\A p \in Procs :
            task[p].pc = "persist" /\ task'[p].fault
                => /\ task'[p].pc = "done"
                   /\ task'[p].resp = errorResponse(12)
                   /\ yahooConversion' = yahooConversion]_vars
    /\ [](\A p \in Procs :
            task[p].pc = "done" /\ task[p].fault /\ task[p].resp = errorResponse(12)
                => ~FindFirst(OrderOf(p)))

\* the create of a delivery has failed after another delivery was stored
C28_Witness ==
    /\ yahooConversion # EmptyBag
    /\ \E p \in Procs :
            task[p].pc = "done" /\ task[p].fault /\ task[p].resp = errorResponse(12)

\* C29: a delivery tagged with a kid that the ApiKeyPair table does not hold, purged by
\* a rotation or never stored, is rejected with error_code 6; the private-key cache
\* holds no kid that the table does not hold.
C29_PurgedKidIsRejected ==
    /\ [][\A p \in Procs :
            task[p].pc = "resolve" /\ task'[p].pc # "resolve" /\ ~KeyStored(task[p].body.kid)
                => task'[p].resp = errorResponse(6)]_vars
    /\ [](rot.pc \in {"idle", "done"} => \A kid \in privateKeyCache : KeyStored(kid))

\* C30: in every reachable state the private-key cache holds at most one key.
C30_CacheIsSingleSlot == Cardinality(privateKeyCache) <= 1

\* the responses of the checks that come before the transaction of step 6
EarlyRejections == {errorResponse(c) : c \in 1..7} \cup {InternalServerError}

\* C31: every step of an invocation that has not reached the transaction of step 6
\* leaves PixelNonce and YahooConversion as they were, and an invocation is answered
\* error_code 1 to 7, or 500 without a storage error, only by such a step: a request
\* rejected before step 6 has written to neither table.
C31_EarlyRejectionWritesNothing ==
    [][\A p \in Procs :
        /\ (task[p].pc \in {"idle", "resolve", "import"} /\ task'[p] # task[p])
            => pixelNonce' = pixelNonce /\ yahooConversion' = yahooConversion
        /\ (task[p].pc # "done" /\ task'[p].pc = "done" /\ ~task'[p].fault
                /\ task'[p].resp \in EarlyRejections)
            => task[p].pc \in {"idle", "resolve", "import"}]_vars

\* a delivery was rejected for the shape of its payload on a gateway that holds a nonce
C31_Witness ==
    /\ pixelNonce # EmptyBag
    /\ \E p \in Procs : task[p].pc = "done" /\ task[p].resp = errorResponse(7)

\* C32: an invocation asks the order system once after the transaction of step 6 and a
\* second time exactly when the first answer held no order; after the second answer it
\* returns, so no invocation asks a third time, and one whose first answer held no order
\* cannot return without asking again.
C32_SecondQueryIffAbsent ==
    [][\A p \in Procs :
        /\ \A res \in LookupResults(now) :
            /\ Lookup(p, res) => /\ task[p].gqlRes = NotAsked
                                 /\ (task'[p].pc = "retry" <=> res = Absent)
            /\ Retry(p, res) => task[p].gqlRes = Absent /\ task'[p].pc = "done"
        /\ (task'[p].pc = "lookup" /\ task[p].pc # "lookup") => task[p].pc = "dedup"
        /\ (task'[p].pc = "retry" /\ task[p].pc # "retry") => task[p].pc = "lookup"
        /\ (task[p].pc = "retry" /\ task'[p] # task[p])
            => \E res \in LookupResults(now) : Retry(p, res)]_vars

\* an invocation has asked twice and was told twice that there is no such order
C32_Witness == \E p \in Procs : task[p].pc = "done" /\ task[p].resp = errorResponse(9)

\* the time at which the entry of the session cache was read from the Session table
LoadedAt == sessionCache.expires - ALLOW_SESSION_TTL_MS

\* C33: getSession hands out the cached session exactly while the expiry of the entry
\* lies in the future, which is less than five minutes after the entry was read from the
\* Session table; otherwise it hands out the stored row and caches it for five minutes,
\* and when there is no stored row it leaves the cache as it was, so that the next call
\* reads the table again.
C33_CachedSessionIsFresh ==
    /\ [][\A p \in Procs :
            Resolve(p) =>
                LET returned == task'[p].pc \in {"import", "dedup"}
                IN  IF sessionCache # Null /\ sessionCache.expires > now
                    THEN /\ now - LoadedAt < ALLOW_SESSION_TTL_MS
                         /\ returned => task'[p].session = sessionCache.session
                         /\ sessionCache' = sessionCache
                    ELSE /\ returned => task'[p].session = sessionRow
                         /\ sessionRow = NoSession
                                => sessionCache' = sessionCache /\ ~SessionCacheHit'
                         /\ sessionRow # NoSession
                                => sessionCache' = [session |-> sessionRow,
                                                    expires |-> now + ALLOW_SESSION_TTL_MS]]_vars
    /\ [](sessionCache # Null => sessionCache.session # NoSession /\ LoadedAt <= now)

\* a delivery was handed the cached session four minutes or more after it was read,
\* while the Session table holds a newer row
C33_Witness ==
    /\ sessionCache # Null /\ sessionCache.session = TheShop /\ sessionRow = CustomDomain
    /\ now - LoadedAt >= 4 * MsPerMin /\ now < sessionCache.expires
    /\ \E p \in Procs : task[p].pc = "dedup" /\ task[p].session = TheShop

\* a delivery was handed the stored row after the entry of the cache had expired
C33_WitnessExpired ==
    /\ sessionCache # Null /\ sessionCache.session = CustomDomain
    /\ LoadedAt >= StartTime + ALLOW_SESSION_TTL_MS
    /\ \E p \in Procs : task[p].pc = "dedup" /\ task[p].session = CustomDomain

\* C34: an invocation of generatePublicKey that has returned false is followed by the
\* next invocation: the scheduler goes on calling it (shown for every invocation but the
\* last one that the model runs).
C34_FailedRotationIsFollowed ==
    \A k \in 1..(MaxRotations - 1) :
        (rot.pc = "done" /\ rot.returned = "false" /\ rot.count = k) ~> (rot.count = k + 1)

\* the second invocation is running although no invocation has put a key into the
\* settings: the first one had failed
C34_Witness == rot.count = 2 /\ rot.pc = "findMany" /\ pushed = <<1>>

\* C35: whenever no rotation is running, the ApiKeyPair table holds the row of the key
\* that is in the web pixel's settings, so that a delivery encrypted with that key finds
\* its private key.
C35_AdvertisedKeyIsStored == rot.pc \in {"idle", "done"} => KeyStored(advertised)

\* the responses of order verification and persistence
LateRejections == {errorResponse(c) : c \in 9..12}

\* C36: the step that rejects a delivery with error_code 9 to 12 leaves its nonce in
\* PixelNonce and no YahooConversion row of its order; no step of the gateway takes a
\* nonce out of PixelNonce; and when the rejected delivery is posted again, the same
\* message is answered error_code 8 by the transaction of step 6, while the message with
\* a nonce that is not stored passes that transaction.
C36_NonceStaysConsumed ==
    [][\A p \in Procs :
        /\ (task[p].pc # "done" /\ task'[p].pc = "done" /\ task'[p].resp \in LateRejections)
            => /\ \E r \in Rows(pixelNonce') : r.nonce = NonceOf(p)
               /\ ~\E r \in Rows(yahooConversion') : r.orderId = OrderOf(p)
        /\ \A r \in Rows(pixelNonce) : r \in Rows(pixelNonce')
        /\ \A q \in Procs \ {p} :
            (/\ task[p].pc = "done" /\ task[p].resp \in LateRejections
             /\ Dedup(q, FALSE)
             /\ task[q].body.plaintext = [task[p].body.plaintext EXCEPT !.nonce = Str(NonceOf(q))])
            => IF NonceOf(q) = NonceOf(p) THEN task'[q].resp = errorResponse(8)
               ELSE (~NonceTaken(NonceOf(q)) /\ ~FindFirst(OrderOf(q)))
                        => task'[q].pc = "lookup"]_vars

\* a delivery was rejected at order verification or persistence, and the same message,
\* posted again, was answered error_code 8
C36_Witness ==
    \E p \in Procs, q \in Procs :
        /\ p # q /\ task[p].pc = "done" /\ task[p].resp \in LateRejections
        /\ task[q].pc = "done" /\ task[q].body = task[p].body
        /\ task[q].resp = errorResponse(8)

\* the same, with the second message carrying a fresh nonce and passing step 6
C36_WitnessFresh ==
    \E p \in Procs, q \in Procs :
        /\ p # q /\ task[p].pc = "done" /\ task[p].resp \in LateRejections
        /\ task[q].pc = "lookup" /\ OrderOf(q) = OrderOf(p) /\ NonceOf(q) # NonceOf(p)

\* C37: YahooConversion never holds two rows with the same yclid; a create for a yclid
\* that a stored row carries ends the invocation with error_code 12 and leaves the
\* table as it was.
C37_OneRecordPerYclid ==
    /\ [](\A r \in DOMAIN yahooConversion :
            /\ yahooConversion[r] = 1
            /\ \A q \in DOMAIN yahooConversion : q.yclid = r.yclid => q = r)
    /\ [][\A p \in Procs :
            (task[p].pc = "persist" /\ task'[p] # task[p]
                /\ \E r \in Rows(yahooConversion) : r.yclid = YclidOf(p))
            => /\ task'[p].pc = "done" /\ task'[p].resp = errorResponse(12)
               /\ yahooConversion' = yahooConversion]_vars

\* the delivery of a new order was answered error_code 12 without a storage error: a
\* row of another order carries its yclid
C37_Witness ==
    \E p \in Procs :
        /\ task[p].pc = "done" /\ task[p].resp = errorResponse(12) /\ ~task[p].fault
        /\ \E r \in Rows(yahooConversion) : r.yclid = YclidOf(p) /\ r.orderId # OrderOf(p)
        /\ ~FindFirst(OrderOf(p))

\* C38: no record is in two batches whose uploads succeeded: of any two uploads that
\* were answered OK without errors, by two accounts of a run or by two runs, the sets
\* of yclids are disjoint.
C38_UploadedAtMostOnce ==
    \A j \in DOMAIN uploads, k \in DOMAIN uploads :
        (j < k /\ uploads[j].ok /\ uploads[k].ok)
            => uploads[j].yclids \cap uploads[k].yclids = {}

\* C39: whether a request passes step 2 is decided by its token and the clock alone: a
\* request that carries the token of the first minute is answered error_code 2 exactly
\* when the clock is more than two minutes past that minute, whatever its payload and
\* nonce, and however many requests have carried the same token before.
C39_TokenIsReusable ==
    [][\A p \in Procs, r \in ReplayRequests :
        Receive(p, r)
            => /\ task'[p].resp = errorResponse(2) <=> now - StartTime > POW_VALID_MS
               /\ task'[p].resp # errorResponse(2) => task'[p].pc = "resolve"]_vars

\* a delivery has been stored, and a delivery of another payload with the same token
\* has passed step 2 a minute or more later
C39_Witness ==
    \E p \in Procs, q \in Procs :
        /\ task[p].pc = "done" /\ task[p].resp = Success
        /\ task[q].pc = "resolve" /\ NonceOf(q) # NonceOf(p) /\ OrderOf(q) # OrderOf(p)
        /\ now > StartTime

\* bit i of the digest, the first bit being the highest bit of the first byte
Bit(hash, i) == (hash[((i - 1) \div 8) + 1] \div (2 ^ (7 - ((i - 1) % 8)))) % 2

\* the number of zero bits before the first one bit of the digest
LeadingZeroBits(hash) ==
    CHOOSE n \in 0..(8 * Len(hash)) :
        /\ \A i \in 1..n : Bit(hash, i) = 0
        /\ n = 8 * Len(hash) \/ Bit(hash, n + 1) = 1

\* C40: for every digest the count of the server's loop and the count of the client's
\* loop are both the number of leading zero bits of the digest.
C40_CountIsLeadingZeroBits ==
    /\ count.pc \in {"server", "both"} => count.server = LeadingZeroBits(count.hash)
    /\ count.pc = "both" => count.client = LeadingZeroBits(count.hash)

\* both loops have counted a digest whose first byte is zero and whose second byte has
\* some leading zero bits and a one bit, followed by a byte that is zero again
C40_Witness ==
    /\ count.pc = "both"
    /\ count.hash[1] = 0 /\ count.hash[2] = 16 /\ count.hash[DigestLen] = 0
    /\ count.client = 11

====
